---- MODULE Spec2Model ----
(***************************************************************************)
(* Memory Vault: the incremental conversation processor (MemoryProcessor)   *)
(* with its IndexedDB store (DBManager) and the application's progress      *)
(* handlers (MemoryGraphApp.startProcessing).                               *)
(*                                                                          *)
(* Strings are sequences of one-character strings, so that normalisation    *)
(* and edit distance are computed character by character as in the code.    *)
(***************************************************************************)
EXTENDS Integers, Sequences, FiniteSets, TLC

(***************************************************************************)
(* Bounds of the model                                                      *)
(***************************************************************************)
MaxRuns == 2          \* calls of processConversations in one behaviour
MaxInput == 2         \* length of the conversations array passed to a call
MaxMinOcc == 2        \* largest sparse-filter threshold a caller configures
MaxFailures == 1      \* store requests that fail in one behaviour
NodeCount == 2        \* entities loaded into the graph renderer
MaxFrames == 2        \* frame callbacks requested and not yet called
MaxPan == 200         \* pixels the canvas is panned from the fitted view
MaxZoomSteps == 2     \* wheel, pinch, button and focus steps in one behaviour

(***************************************************************************)
(* Program constants                                                        *)
(***************************************************************************)
batchSize == 500            \* MemoryProcessor constructor
DefaultMinOccurrences == 2  \* MemoryProcessor constructor
FuzzyMinKeyLength == 5      \* findExistingEntity: normalizedKey.length > 5
FuzzyMaxDistance == 2       \* findExistingEntity: distance <= 2
MinWordLength == 2          \* buildSearchIndex: w.length > 2
SecondsPerDay == 86400      \* Date(timestamp * 1000).toISOString() date part

(***************************************************************************)
(* Characters and strings                                                   *)
(***************************************************************************)
UpperChars == <<"A","B","C","D","E","F","G","H","I","J","K","L","M",
                "N","O","P","Q","R","S","T","U","V","W","X","Y","Z">>
LowerChars == <<"a","b","c","d","e","f","g","h","i","j","k","l","m",
                "n","o","p","q","r","s","t","u","v","w","x","y","z">>
DigitChars == <<"0","1","2","3","4","5","6","7","8","9">>

Range(s) == {s[i] : i \in DOMAIN s}

UpperSet == Range(UpperChars)
LowerSet == Range(LowerChars)
DigitSet == Range(DigitChars)

\* \w of a JavaScript regular expression: [A-Za-z0-9_]
WordCharSet == UpperSet \cup LowerSet \cup DigitSet \cup {"_"}
IsWordChar(c) == c \in WordCharSet

\* \s of a JavaScript regular expression (the white space the model uses)
IsSpaceChar(c) == c \in {" ", "\t", "\n"}

toLowerCaseChar(c) ==
  IF c \in UpperSet
    THEN LowerChars[CHOOSE i \in DOMAIN UpperChars : UpperChars[i] = c]
    ELSE c

toLowerCase(s) == [i \in DOMAIN s |-> toLowerCaseChar(s[i])]

RECURSIVE trimStart(_)
trimStart(s) ==
  IF s # <<>> /\ IsSpaceChar(Head(s)) THEN trimStart(Tail(s)) ELSE s

RECURSIVE trimEnd(_)
trimEnd(s) ==
  IF s # <<>> /\ IsSpaceChar(s[Len(s)]) THEN trimEnd(SubSeq(s, 1, Len(s) - 1)) ELSE s

trim(s) == trimEnd(trimStart(s))

\* s.replace(/[^\w\s]/g, '')
stripNonWord(s) == SelectSeq(s, LAMBDA c : IsWordChar(c) \/ IsSpaceChar(c))

\* Variant: the toLowerCase() call is missing.
normalizeEntityName_caseSensitive(name) == stripNonWord(trim(name))

normalizeEntityName(name) == stripNonWord(trim(toLowerCase(name)))

(***************************************************************************)
(* levenshteinDistance: the matrix of the code, built row by row.           *)
(* A row is the sequence matrix[i][0..len2], stored at indices 1..len2+1.   *)
(***************************************************************************)
Min2(a, b) == IF a <= b THEN a ELSE b
Min3(a, b, c) == Min2(a, Min2(b, c))

RECURSIVE levRow(_, _, _, _)
levRow(prev, ch, str2, row) ==
  LET j == Len(row) IN      \* next column to fill
  IF j > Len(str2) THEN row
  ELSE LET cost == IF ch = str2[j] THEN 0 ELSE 1
           cell == Min3(prev[j + 1] + 1, row[j] + 1, prev[j] + cost)
       IN levRow(prev, ch, str2, Append(row, cell))

RECURSIVE levRows(_, _, _, _)
levRows(str1, str2, i, prev) ==
  IF i > Len(str1) THEN prev
  ELSE levRows(str1, str2, i + 1, levRow(prev, str1[i], str2, <<i>>))

levenshteinDistance(str1, str2) ==
  IF Len(str1) = 0 THEN Len(str2)
  ELSE IF Len(str2) = 0 THEN Len(str1)
  ELSE levRows(str1, str2, 1, [j \in 1..(Len(str2) + 1) |-> j - 1])[Len(str2) + 1]

(***************************************************************************)
(* Deduplication: findExistingEntity and getOrCreateEntity.                 *)
(* The live entity map is a sequence of entity records in insertion order   *)
(* (the iteration order of a JavaScript Map).  NoId stands for null.        *)
(***************************************************************************)
NoId == <<>>

RECURSIVE exactMatch(_, _, _, _)
exactMatch(entities, i, normalizedKey, type) ==
  IF i > Len(entities) THEN NoId
  ELSE IF entities[i].type = type /\ entities[i].normalizedKey = normalizedKey
    THEN entities[i].id
  ELSE exactMatch(entities, i + 1, normalizedKey, type)

RECURSIVE fuzzyMatchEntity(_, _, _, _)
fuzzyMatchEntity(entities, i, normalizedKey, type) ==
  IF i > Len(entities) THEN NoId
  ELSE IF entities[i].type = type
          /\ levenshteinDistance(entities[i].normalizedKey, normalizedKey) <= FuzzyMaxDistance
    THEN entities[i].id
  ELSE fuzzyMatchEntity(entities, i + 1, normalizedKey, type)

\* Variant: the exact-match loop is missing.
findExistingEntity_fuzzyOnly(entities, normalizedKey, type) ==
  IF Len(normalizedKey) > FuzzyMinKeyLength
    THEN fuzzyMatchEntity(entities, 1, normalizedKey, type)
    ELSE NoId

\* Variant: the fuzzy loop also runs for short keys.
findExistingEntity_shortKeys(entities, normalizedKey, type) ==
  LET exact == exactMatch(entities, 1, normalizedKey, type)
  IN IF exact # NoId THEN exact
     ELSE fuzzyMatchEntity(entities, 1, normalizedKey, type)

\* Variant: the fuzzy loop runs before the exact loop.
findExistingEntity_fuzzyFirst(entities, normalizedKey, type) ==
  IF /\ Len(normalizedKey) > FuzzyMinKeyLength
     /\ fuzzyMatchEntity(entities, 1, normalizedKey, type) # NoId
    THEN fuzzyMatchEntity(entities, 1, normalizedKey, type)
    ELSE exactMatch(entities, 1, normalizedKey, type)

findExistingEntity(entities, normalizedKey, type) ==
  LET exact == exactMatch(entities, 1, normalizedKey, type)
  IN IF exact # NoId THEN exact
     ELSE IF Len(normalizedKey) > FuzzyMinKeyLength
       THEN fuzzyMatchEntity(entities, 1, normalizedKey, type)
     ELSE NoId

\* The id `${type}_${key}_${Date.now()}_${random}` is a fresh value: the model
\* keeps type and key and replaces the time and random parts by a counter.
newEntity(extracted, key, timestamp, nonce) ==
  [ id            |-> <<extracted.type, key, nonce>>,
    type          |-> extracted.type,
    name          |-> extracted.name,
    description   |-> extracted.context,
    firstSeen     |-> timestamp,
    lastSeen      |-> timestamp,
    occurrences   |-> 0,
    conversations |-> <<>>,
    links         |-> <<>>,
    normalizedKey |-> key ]

\* Returns the id and the live map and id counter after the call.
getOrCreateEntity(entities, extracted, timestamp, nonce) ==
  LET result(key, existingId) ==
        IF existingId # NoId
          THEN [id |-> existingId, entities |-> entities, nonce |-> nonce]
          ELSE [id |-> <<extracted.type, key, nonce>>,
                entities |-> Append(entities, newEntity(extracted, key, timestamp, nonce)),
                nonce |-> nonce + 1]
      lookup(key) == result(key, findExistingEntity(entities, key, extracted.type))
  IN lookup(normalizeEntityName(extracted.name))

(***************************************************************************)
(* Small map helpers: a JavaScript Map is a sequence of records in          *)
(* insertion order; set() on a present key keeps the key's position.        *)
(***************************************************************************)
RECURSIVE indexOfId(_, _, _)
indexOfId(seq, i, id) ==
  IF i > Len(seq) THEN 0
  ELSE IF seq[i].id = id THEN i
  ELSE indexOfId(seq, i + 1, id)

mapHas(seq, id) == indexOfId(seq, 1, id) # 0

mapSet(seq, value) ==
  LET k == indexOfId(seq, 1, value.id)
  IN IF k = 0 THEN Append(seq, value) ELSE [seq EXCEPT ![k] = value]

includes(arr, x) == \E i \in DOMAIN arr : arr[i] = x

pushIfAbsent(arr, x) == IF includes(arr, x) THEN arr ELSE Append(arr, x)

\* Variant: lastSeen becomes the timestamp of the conversation processed last.
Max2_latest(a, b) == b

Max2(a, b) == IF a >= b THEN a ELSE b

(***************************************************************************)
(* processConversation.  A conversation record carries what                 *)
(* extractMessages/extractEntities yield for it as the field `extracted`.   *)
(* The processor state p has the live maps, the id counter and `calls`, the *)
(* log of the getOrCreateEntity calls of the run.                           *)
(***************************************************************************)
dateOf(timestamp) == timestamp \div SecondsPerDay

RECURSIVE indexOfDate(_, _, _)
indexOfDate(timeline, i, date) ==
  IF i > Len(timeline) THEN 0
  ELSE IF timeline[i].date = date THEN i
  ELSE indexOfDate(timeline, i + 1, date)

RECURSIVE addAll(_, _, _)
addAll(set, ids, i) ==
  IF i > Len(ids) THEN set ELSE addAll(pushIfAbsent(set, ids[i]), ids, i + 1)

updateTimeline(timeline, date, entityIds, convId) ==
  LET tl == IF indexOfDate(timeline, 1, date) = 0
              THEN Append(timeline, [date |-> date, entities |-> <<>>, conversations |-> <<>>])
              ELSE timeline
      k == indexOfDate(tl, 1, date)
  IN [tl EXCEPT ![k] = [date |-> date,
                        entities |-> addAll(tl[k].entities, entityIds, 1),
                        conversations |-> Append(tl[k].conversations, convId)]]

\* extractMessages reads node.message of every node of conversation.mapping:
\* a node that is null makes that read throw a TypeError.
NullNode == "null"
MessageNode == "node"
extractMessagesThrows(conversation) ==
  \E n \in DOMAIN conversation.mapping : conversation.mapping[n] = NullNode

\* The loop over extractedEntities of processConversation.
RECURSIVE resolveExtracted(_, _, _, _, _, _)
resolveExtracted(p, extracted, i, convId, timestamp, ids) ==
  IF i > Len(extracted) THEN [p |-> p, ids |-> ids]
  ELSE
    LET updated(entity) ==
          [entity EXCEPT
             !.conversations = pushIfAbsent(entity.conversations, convId),
             !.lastSeen = Max2(entity.lastSeen, timestamp),
             !.occurrences = entity.occurrences + 1]
        step(r) ==
          resolveExtracted(
            [p EXCEPT !.entities = [r.entities EXCEPT
                                      ![indexOfId(r.entities, 1, r.id)] = updated(@)],
                      !.nonce = r.nonce,
                      !.calls = Append(p.calls, [extracted |-> extracted[i],
                                                 before |-> p.entities,
                                                 id |-> r.id,
                                                 sizeAfter |-> Len(r.entities)])],
            extracted, i + 1, convId, timestamp, Append(ids, r.id))
    IN step(getOrCreateEntity(p.entities, extracted[i], timestamp, p.nonce))

\* p.error is the exception that has left processConversation, if any.
processConversation(p, conversation) ==
  IF extractMessagesThrows(conversation) THEN [p EXCEPT !.error = "TypeError"] ELSE
  LET convId == conversation.id
      timestamp == conversation.create_time
      date == dateOf(timestamp)
      convData(entityIds) ==
        [id |-> convId, title |-> conversation.title, timestamp |-> timestamp,
         date |-> date, entities |-> entityIds]
      record(res) ==
        [res.p EXCEPT
           !.conversationEntities = mapSet(@, convData(res.ids)),
           !.timeline = updateTimeline(@, date, res.ids, convId),
           !.processed = Append(@, convId)]
  IN record(resolveExtracted(p, conversation.extracted, 1, convId, timestamp, <<>>))

RECURSIVE processBatch(_, _, _)
processBatch(p, batch, i) ==
  IF i > Len(batch) \/ p.error # "none" THEN p
  ELSE processBatch(processConversation(p, batch[i]), batch, i + 1)

(***************************************************************************)
(* filterSparseEntities                                                     *)
(***************************************************************************)
sparseIds(entities, minOccurrences) ==
  {entities[i].id : i \in {j \in DOMAIN entities : entities[j].occurrences < minOccurrences}}

\* Variant: the conversations' entity lists are left as they are.
filterSparseEntities_keepRefs(p, minOccurrences) ==
  LET toDelete == sparseIds(p.entities, minOccurrences)
      kept == SelectSeq(p.entities, LAMBDA e : e.id \notin toDelete)
      keptIds == {kept[i].id : i \in DOMAIN kept}
      relinked == [e \in DOMAIN kept |->
                    [kept[e] EXCEPT !.links = SelectSeq(@, LAMBDA linkId : linkId \in keptIds)]]
  IN [p EXCEPT !.entities = relinked,
               !.removed = toDelete]

filterSparseEntities(p, minOccurrences) ==
  LET toDelete == sparseIds(p.entities, minOccurrences)
      convs == [c \in DOMAIN p.conversationEntities |->
                 [p.conversationEntities[c] EXCEPT
                    !.entities = SelectSeq(@, LAMBDA id : id \notin toDelete)]]
      kept == SelectSeq(p.entities, LAMBDA e : e.id \notin toDelete)
      keptIds == {kept[i].id : i \in DOMAIN kept}
      relinked == [e \in DOMAIN kept |->
                    [kept[e] EXCEPT !.links = SelectSeq(@, LAMBDA linkId : linkId \in keptIds)]]
  IN [p EXCEPT !.entities = relinked,
               !.conversationEntities = convs,
               !.removed = toDelete]

(***************************************************************************)
(* computeRelationships                                                     *)
(***************************************************************************)
linkPair(entities, id1, id2) ==
  LET k1 == indexOfId(entities, 1, id1)
      k2 == indexOfId(entities, 1, id2)
      step1 == [entities EXCEPT ![k1].links = pushIfAbsent(@, id2)]
      step2 == [step1 EXCEPT ![k2].links = pushIfAbsent(@, id1)]
  IN IF k1 # 0 /\ k2 # 0 THEN step2 ELSE entities

RECURSIVE relateConversation(_, _, _, _)
relateConversation(entities, ids, i, j) ==
  IF i > Len(ids) THEN entities
  ELSE IF j > Len(ids) THEN relateConversation(entities, ids, i + 1, i + 2)
  ELSE relateConversation(linkPair(entities, ids[i], ids[j]), ids, i, j + 1)

RECURSIVE computeRelationships(_, _, _)
computeRelationships(entities, conversationEntities, c) ==
  IF c > Len(conversationEntities) THEN entities
  ELSE computeRelationships(
         relateConversation(entities, conversationEntities[c].entities, 1, 2),
         conversationEntities, c + 1)

(***************************************************************************)
(* buildTimeline: the entries of the timeline map sorted by date            *)
(***************************************************************************)
RECURSIVE insertByDate(_, _)
insertByDate(sorted, entry) ==
  IF sorted = <<>> THEN <<entry>>
  ELSE IF entry.date < Head(sorted).date THEN <<entry>> \o sorted
  ELSE <<Head(sorted)>> \o insertByDate(Tail(sorted), entry)

RECURSIVE sortByDate(_, _, _)
sortByDate(timeline, i, sorted) ==
  IF i > Len(timeline) THEN sorted
  ELSE sortByDate(timeline, i + 1, insertByDate(sorted, timeline[i]))

buildTimeline(timeline) == sortByDate(timeline, 1, <<>>)

(***************************************************************************)
(* DBManager: every object store is a function from key to record.  put     *)
(* overwrites the record of its key; getAll returns the records in key      *)
(* order.  Entity ids are the strings `${type}_${key}_${time}_${random}`,   *)
(* compared as strings; the names of the model hold no underscore, so the   *)
(* order is decided by type, then key followed by "_", then creation time.  *)
(***************************************************************************)
dbPut(store, key, record) ==
  [k \in DOMAIN store \cup {key} |-> IF k = key THEN record ELSE store[k]]

EmptyStore == [k \in {} |-> {}]

EntityTypes == <<"knowledge", "pattern", "person", "project", "question", "thought">>

typeRank(type) == CHOOSE i \in DOMAIN EntityTypes : EntityTypes[i] = type

charCode(c) ==
  IF c = "\t" THEN 9
  ELSE IF c = "\n" THEN 10
  ELSE IF c = " " THEN 32
  ELSE IF c \in DigitSet
    THEN 47 + (CHOOSE i \in DOMAIN DigitChars : DigitChars[i] = c)
  ELSE IF c = "_" THEN 95
  ELSE IF c \in LowerSet
    THEN 96 + (CHOOSE i \in DOMAIN LowerChars : LowerChars[i] = c)
  ELSE 0

RECURSIVE stringLess(_, _, _)
stringLess(a, b, i) ==
  IF i > Len(a) THEN i <= Len(b)
  ELSE IF i > Len(b) THEN FALSE
  ELSE IF charCode(a[i]) # charCode(b[i]) THEN charCode(a[i]) < charCode(b[i])
  ELSE stringLess(a, b, i + 1)

entityIdLess(a, b) ==
  IF a[1] # b[1] THEN typeRank(a[1]) < typeRank(b[1])
  ELSE IF a[2] # b[2] THEN stringLess(Append(a[2], "_"), Append(b[2], "_"), 1)
  ELSE a[3] < b[3]

RECURSIVE getAllEntitiesFrom(_, _)
getAllEntitiesFrom(store, keys) ==
  IF keys = {} THEN <<>>
  ELSE LET first == CHOOSE k \in keys : \A o \in keys \ {k} : entityIdLess(k, o)
       IN <<store[first]>> \o getAllEntitiesFrom(store, keys \ {first})

getAllEntities(store) == getAllEntitiesFrom(store, DOMAIN store)

\* Conversation ids are the strings "c1", "c2", ...: ordered by their digit.
convIdLess(a, b) ==
  \E i, j \in DOMAIN DigitChars :
     /\ a = "c" \o DigitChars[i]
     /\ b = "c" \o DigitChars[j]
     /\ i < j

RECURSIVE getAllConversationsFrom(_, _)
getAllConversationsFrom(store, keys) ==
  IF keys = {} THEN <<>>
  ELSE LET first == CHOOSE k \in keys : \A o \in keys \ {k} : convIdLess(k, o)
       IN <<store[first]>> \o getAllConversationsFrom(store, keys \ {first})

getAllConversations(store) == getAllConversationsFrom(store, DOMAIN store)

RECURSIVE saveEntities(_, _, _)
saveEntities(store, entities, i) ==
  IF i > Len(entities) THEN store
  ELSE saveEntities(dbPut(store, entities[i].id, entities[i]), entities, i + 1)

RECURSIVE saveConversations(_, _, _)
saveConversations(store, conversationEntities, i) ==
  IF i > Len(conversationEntities) THEN store
  ELSE saveConversations(dbPut(store, conversationEntities[i].id, conversationEntities[i]),
                         conversationEntities, i + 1)

RECURSIVE saveTimeline(_, _, _)
saveTimeline(store, timeline, i) ==
  IF i > Len(timeline) THEN store
  ELSE saveTimeline(dbPut(store, timeline[i].date, timeline[i]), timeline, i + 1)

addToSearchIndex(store, word, entityId) ==
  IF word \in DOMAIN store
    THEN dbPut(store, word, [store[word] EXCEPT !.entities = pushIfAbsent(@, entityId)])
    ELSE dbPut(store, word, [word |-> word, entities |-> <<entityId>>])

\* text.split(/\s+/): the maximal runs of non-space characters (and empty
\* strings at the ends, which the length filter drops).
RECURSIVE splitWords(_, _, _, _)
splitWords(text, i, current, words) ==
  IF i > Len(text) THEN Append(words, current)
  ELSE IF IsSpaceChar(text[i])
    THEN IF i > 1 /\ IsSpaceChar(text[i - 1])
           THEN splitWords(text, i + 1, current, words)
           ELSE splitWords(text, i + 1, <<>>, Append(words, current))
  ELSE splitWords(text, i + 1, Append(current, text[i]), words)

searchWords(entity) ==
  LET searchText == toLowerCase(entity.name \o <<" ">> \o entity.description)
  IN SelectSeq(splitWords(searchText, 1, <<>>, <<>>), LAMBDA w : Len(w) > MinWordLength)

RECURSIVE indexWords(_, _, _, _)
indexWords(store, words, i, entityId) ==
  IF i > Len(words) THEN store
  ELSE indexWords(addToSearchIndex(store, words[i], entityId), words, i + 1, entityId)

RECURSIVE buildSearchIndex(_, _, _)
buildSearchIndex(store, entities, i) ==
  IF i > Len(entities) THEN store
  ELSE buildSearchIndex(indexWords(store, searchWords(entities[i]), 1, entities[i].id),
                        entities, i + 1)

RECURSIVE countWords(_, _)
countWords(entities, i) ==
  IF i > Len(entities) THEN 0
  ELSE Len(searchWords(entities[i])) + countWords(entities, i + 1)

(***************************************************************************)
(* Inputs: the conversations of the export file.  `extracted` is the list   *)
(* of candidates extractEntities yields for the conversation's text.        *)
(***************************************************************************)
Person(name) == [type |-> "person", name |-> name, context |-> <<>>]
Project(name) == [type |-> "project", name |-> name, context |-> <<"a", "p", "p">>]

NameAnn == <<"A", "n", "n">>
NameAnnBang == <<"a", "n", "n", "!">>
NamePython == <<"P", "y", "t", "h", "o", "n">>
NamePythom == <<"P", "y", "t", "h", "o", "m">>
NamePascal == <<"P", "a", "s", "c", "a", "l">>
NamePytho == <<"P", "y", "t", "h", "o">>

Conversation(id, time, extracted) ==
  [id |-> id, title |-> "Untitled", create_time |-> time, mapping |-> <<MessageNode>>,
   extracted |-> extracted]

\* A conversation whose mapping has a null node.
BrokenConversation(id, time) ==
  [Conversation(id, time, <<>>) EXCEPT !.mapping = <<MessageNode, NullNode>>]

\* The conversations array of the export file the user uploads.
ExportFile ==
  << Conversation("c1", 90000, <<Person(NameAnn)>>),
     Conversation("c2", 86400, <<Person(NameAnnBang)>>),
     BrokenConversation("c4", 100000),
     Conversation("c3", 172800, <<Person(NamePython), Person(NamePythom), Person(NamePascal),
                                  Person(NamePytho), Project(NamePython), Project(NamePython)>>),
     Conversation("c5", 180000, <<Person(NamePython)>>) >>

\* The arrays a call is given: slices of up to MaxInput conversations of the
\* file.
Selections(n) ==
  {f \in [1..n -> DOMAIN ExportFile] : \A i \in 1..(n - 1) : f[i + 1] = f[i] + 1}

InputArrays ==
  UNION {{[i \in 1..n |-> ExportFile[f[i]]] : f \in Selections(n)} : n \in 1..MaxInput}

NoRange == <<>>
Ranges == {[start |-> 0, end |-> e] : e \in 1..MaxInput}

\* The calls of processConversations(conversations, onProgress, resumeMode):
\*  "simple"  - the progress callback of the first MemoryGraphApp.startProcessing,
\*              with either value of resumeMode;
\*  "chunked" - the progress callback of the second one, which passes
\*              maxToProcess as third and customRange as fourth argument:
\*              resumeMode is the count of incremental mode (truthy unless
\*              the count is missing or 0) and null in range mode.
Calls ==
  [conversations : InputArrays, onProgress : {"simple"}, resumeMode : BOOLEAN,
   customRange : {NoRange}]
  \cup
  [conversations : InputArrays, onProgress : {"chunked"}, resumeMode : BOOLEAN,
   customRange : {NoRange}]
  \cup
  [conversations : InputArrays, onProgress : {"chunked"}, resumeMode : {FALSE},
   customRange : Ranges]

(***************************************************************************)
(* Progress handlers of the application                                     *)
(***************************************************************************)
HasField(ev, f) == f \in DOMAIN ev
Truthy(ev, f) == HasField(ev, f) /\ ev[f] # FALSE /\ ev[f] # 0

\* First startProcessing: reads processed, entitiesFound, percentage, total.
simpleHandler(progress) ==
  IF \A f \in {"processed", "entitiesFound", "percentage", "total"} : HasField(progress, f)
    THEN "processing" ELSE "TypeError"

\* Second startProcessing: tests progress.alreadyComplete, then calls
\* toLocaleString() on totalInFile, entitiesFound, endIndex and on
\* (currentGlobalIndex || startIndex); on undefined that throws a TypeError.
chunkedHandler(progress) ==
  IF Truthy(progress, "alreadyComplete")
    THEN IF HasField(progress, "totalInFile") /\ HasField(progress, "entitiesFound")
           THEN "allProcessed" ELSE "TypeError"
    ELSE IF /\ HasField(progress, "currentGlobalIndex") \/ HasField(progress, "startIndex")
            /\ HasField(progress, "totalInFile")
            /\ HasField(progress, "entitiesFound")
            /\ HasField(progress, "endIndex")
           THEN "processing" ELSE "TypeError"

callOnProgress(onProgress, progress) ==
  IF onProgress = "simple" THEN simpleHandler(progress) ELSE chunkedHandler(progress)

(***************************************************************************)
(* Numbers of the renderer.  A JavaScript number is modelled by the exact   *)
(* fraction <<n, d>> in lowest terms with d > 0, so that the divisions and  *)
(* products of the viewport arithmetic are computed, not rounded.           *)
(***************************************************************************)
Abs(n) == IF n < 0 THEN 0 - n ELSE n

RECURSIVE GCD(_, _)
GCD(a, b) == IF b = 0 THEN a ELSE GCD(b, a % b)

LCM(a, b) == (a \div GCD(a, b)) * b

\* The operations bind their operands with \in, so that an operand that is
\* itself a computation is computed once.
Lowest(n, d, g) ==
  IF d < 0 THEN <<(0 - n) \div g, (0 - d) \div g>> ELSE <<n \div g, d \div g>>

Q(n, d) == CHOOSE q \in {Lowest(x, y, GCD(Abs(x), Abs(y))) : x \in {n}, y \in {d}} : TRUE

I(n) == <<n, 1>>

\* Sums over the least common denominator.
SumOver(a, b, d) == Q(a[1] * (d \div a[2]) + b[1] * (d \div b[2]), d)

QAdd(a, b) == CHOOSE q \in {SumOver(x, y, LCM(x[2], y[2])) : x \in {a}, y \in {b}} : TRUE

QSub(a, b) == CHOOSE q \in {QAdd(x, <<0 - y[1], y[2]>>) : x \in {a}, y \in {b}} : TRUE

\* Products with the common factors taken out first.
Crossed(a, b, g, h) == Q((a[1] \div g) * (b[1] \div h), (a[2] \div h) * (b[2] \div g))

QMul(a, b) ==
  CHOOSE q \in {Crossed(x, y, GCD(Abs(x[1]), y[2]), GCD(Abs(y[1]), x[2])) :
                  x \in {a}, y \in {b}} : TRUE

Inverse(b) == IF b[1] < 0 THEN <<0 - b[2], 0 - b[1]>> ELSE <<b[2], b[1]>>

QDiv(a, b) == CHOOSE q \in {QMul(x, Inverse(y)) : x \in {a}, y \in {b}} : TRUE

QLeq(a, b) == QSub(a, b)[1] <= 0
QLess(a, b) == QSub(a, b)[1] < 0
QMin(a, b) == CHOOSE q \in {IF QLeq(x, y) THEN x ELSE y : x \in {a}, y \in {b}} : TRUE
QMax(a, b) == CHOOSE q \in {IF QLeq(y, x) THEN x ELSE y : x \in {a}, y \in {b}} : TRUE
QAbs(a) == CHOOSE q \in {<<Abs(x[1]), x[2]>> : x \in {a}} : TRUE

(***************************************************************************)
(* GraphRenderer.  null is Null for a number and NoNode for a node; the     *)
(* arrays of node objects (visibleNodes, the ends of an edge, the dragged,  *)
(* hovered and selected node) hold node ids.  `frames` is the browser's set *)
(* of pending requests for a call of animate, `transitions` the pending    *)
(* closures of animateViewport, `frame` what the last call of animate did,  *)
(* `clicked` the node the last mouse event called onNodeClick with, `down`  *)
(* the place of the mousedown since the last mouseup, `lastTouchDistance`   *)
(* the variable of that name in setupEventListeners and `zoomSteps` the     *)
(* number of zooms and focus calls so far.                                  *)
(***************************************************************************)
margin == 100          \* updateVisibleElements
CanvasWidth == 800     \* canvas.width
CanvasHeight == 600    \* canvas.height
nodeRadius == 8
nodeRadiusHover == 12
ClickSlop == 5         \* mouseup: Math.abs(dx) < 5 && Math.abs(dy) < 5
FocusPadding == 200    \* resetViewport: padding

Null == <<>>
NoNode == 0
NoRequest == 0       \* animationFrame when it is null; the browser's handles are positive
NoFrame == [physics |-> FALSE, culled |-> FALSE, rendered |-> FALSE]
NotDown == [x |-> Null, y |-> Null]

GraphRenderer(width, height) ==
  [ width           |-> I(width),
    height          |-> I(height),
    nodes           |-> <<>>,
    edges           |-> <<>>,
    viewport        |-> [offsetX |-> I(0), offsetY |-> I(0), scale |-> I(1),
                         minScale |-> Q(1, 10), maxScale |-> I(5)],
    interaction     |-> [isDragging |-> FALSE, isPanning |-> FALSE, draggedNode |-> NoNode,
                         hoveredNode |-> NoNode, selectedNode |-> NoNode,
                         lastMouseX |-> I(0), lastMouseY |-> I(0)],
    animationFrame  |-> NoRequest,
    isRunning       |-> FALSE,
    simulationAlpha |-> I(1),
    alphaDecay      |-> Q(2, 100),
    visibleNodes    |-> <<>>,
    visibleEdges    |-> <<>>,
    frames          |-> {},
    frame           |-> NoFrame,
    clicked         |-> NoNode,
    down            |-> NotDown,
    lastTouchDistance |-> Null,
    transitions     |-> {},
    zoomSteps       |-> 0 ]

RECURSIVE indexOfEdge(_, _, _, _)
indexOfEdge(edges, i, a, b) ==
  IF i > Len(edges) THEN 0
  ELSE IF \/ edges[i].source = a /\ edges[i].target = b
          \/ edges[i].source = b /\ edges[i].target = a
    THEN i
  ELSE indexOfEdge(edges, i + 1, a, b)

\* The edges of one entity's links: both ends must be nodes, and a pair of
\* nodes gets one edge only (edgeSet).  An edge holds the ids of its nodes.
RECURSIVE linkEdges(_, _, _, _)
linkEdges(edges, entities, e, l) ==
  IF l > Len(entities[e].links) THEN edges
  ELSE IF /\ mapHas(entities, entities[e].links[l])
          /\ indexOfEdge(edges, 1, entities[e].id, entities[e].links[l]) = 0
    THEN linkEdges(Append(edges, [source |-> entities[e].id,
                                  target |-> entities[e].links[l],
                                  strength |-> 1]),
                   entities, e, l + 1)
  ELSE linkEdges(edges, entities, e, l + 1)

RECURSIVE createEdges(_, _, _)
createEdges(edges, entities, e) ==
  IF e > Len(entities) THEN edges
  ELSE createEdges(linkEdges(edges, entities, e, 1), entities, e + 1)

\* loadData and initializeLayout; positions[i] is the random place of node i.
loadData(r, entities, positions) ==
  [r EXCEPT
     !.nodes = [i \in DOMAIN entities |->
                 [id |-> entities[i].id, type |-> entities[i].type,
                  x |-> I(positions[i].x), y |-> I(positions[i].y),
                  fx |-> Null, fy |-> Null, visible |-> TRUE]],
     !.edges = createEdges(<<>>, entities, 1),
     !.simulationAlpha = I(1)]

filterByType(r, types) ==
  [r EXCEPT !.nodes = [i \in DOMAIN r.nodes |->
                         [r.nodes[i] EXCEPT !.visible = Len(types) = 0
                                                        \/ includes(types, r.nodes[i].type)]]]

screenToWorld(r, screenX, screenY) ==
  [x |-> QDiv(QSub(screenX, r.viewport.offsetX), r.viewport.scale),
   y |-> QDiv(QSub(screenY, r.viewport.offsetY), r.viewport.scale)]

\* The view in world coordinates, extended by the margin.
viewBounds(r) ==
  [left   |-> QSub(QDiv(QSub(I(0), r.viewport.offsetX), r.viewport.scale), I(margin)),
   right  |-> QAdd(QDiv(QSub(r.width, r.viewport.offsetX), r.viewport.scale), I(margin)),
   top    |-> QSub(QDiv(QSub(I(0), r.viewport.offsetY), r.viewport.scale), I(margin)),
   bottom |-> QAdd(QDiv(QSub(r.height, r.viewport.offsetY), r.viewport.scale), I(margin))]

inView(node, view) ==
  /\ QLeq(view.left, node.x) /\ QLeq(node.x, view.right)
  /\ QLeq(view.top, node.y) /\ QLeq(node.y, view.bottom)

nodeIds(nodes) == [i \in DOMAIN nodes |-> nodes[i].id]

visibleEdgesOf(edges, visibleNodes) ==
  SelectSeq(edges, LAMBDA edge : includes(visibleNodes, edge.source)
                                 /\ includes(visibleNodes, edge.target))

\* this.visibleNodes and this.visibleEdges of a culling pass.
culled(r, visibleNodes) ==
  [r EXCEPT !.visibleNodes = visibleNodes,
            !.visibleEdges = visibleEdgesOf(r.edges, visibleNodes)]

\* Variant: the visibility flag of a node is not looked at.
updateVisibleElements_ignoreFlag(r) ==
  CHOOSE done \in
    { culled(r, visibleNodes) : visibleNodes \in
        { nodeIds(SelectSeq(r.nodes, LAMBDA node : inView(node, view))) :
            view \in {viewBounds(r)} } } :
    TRUE

\* The bounds are computed once, then the nodes are filtered, then the edges.
updateVisibleElements(r) ==
  CHOOSE done \in
    { culled(r, visibleNodes) : visibleNodes \in
        { nodeIds(SelectSeq(r.nodes, LAMBDA node : node.visible # FALSE /\ inView(node, view))) :
            view \in {viewBounds(r)} } } :
    TRUE

\* The node object of an id (nodeMap.get); ids of nodes are never NoNode.
nodeIndex(r, id) == CHOOSE i \in DOMAIN r.nodes : r.nodes[i].id = id

nodeOf(r, id) == r.nodes[nodeIndex(r, id)]

\* findNodeAtPosition: the last of visibleNodes within its radius of (x, y).
RECURSIVE findNodeFrom(_, _, _, _)
findNodeFrom(r, i, x, y) ==
  IF i < 1 THEN NoNode
  ELSE LET hit(node, radius) ==
             QLeq(QAdd(QMul(QSub(x, node.x), QSub(x, node.x)),
                       QMul(QSub(y, node.y), QSub(y, node.y))),
                  I(radius * radius))
       IN IF hit(nodeOf(r, r.visibleNodes[i]),
                 IF r.visibleNodes[i] = r.interaction.hoveredNode
                   THEN nodeRadiusHover ELSE nodeRadius)
            THEN r.visibleNodes[i]
            ELSE findNodeFrom(r, i - 1, x, y)

findNodeAtPosition(r, x, y) == findNodeFrom(r, Len(r.visibleNodes), x, y)

\* The browser's requestAnimationFrame: a handle no pending request has.
requestId(r) == CHOOSE id \in 1..(Cardinality(r.frames) + 1) : id \notin r.frames

\* updatePhysics: a pinned node is put at its pin.  The forces on the other
\* nodes (square roots of distances, velocities) are not computed: places[i]
\* is where they bring node i.
updatePhysics(r, places) ==
  [r EXCEPT !.nodes = [i \in DOMAIN r.nodes |->
                         IF r.nodes[i].fx # Null
                           THEN [r.nodes[i] EXCEPT !.x = r.nodes[i].fx, !.y = r.nodes[i].fy]
                           ELSE [r.nodes[i] EXCEPT !.x = places[i].x, !.y = places[i].y]]]

\* requestAnimationFrame(() => this.animate()) at the end of a frame.
requestFrame(r) ==
  [r EXCEPT !.animationFrame = requestId(r), !.frames = r.frames \cup {requestId(r)}]

\* Variant: the physics step leaves simulationAlpha as it is.
framePhysics_noDecay(r, places) ==
  IF QLess(Q(1, 100), r.simulationAlpha)
    THEN [updatePhysics(r, places) EXCEPT !.frame.physics = TRUE]
    ELSE r

\* The first step of a frame: the physics while alpha is above 0.01.
framePhysics(r, places) ==
  IF QLess(Q(1, 100), r.simulationAlpha)
    THEN [updatePhysics(r, places) EXCEPT
            !.simulationAlpha = QSub(r.simulationAlpha, r.alphaDecay),
            !.frame.physics = TRUE]
    ELSE r

\* The culling and the drawing of a frame.
frameRender(r) ==
  [updateVisibleElements(r) EXCEPT !.frame.culled = TRUE, !.frame.rendered = TRUE]

\* The statements of animate after its check of isRunning, in order; the
\* renderer each statement leaves is the one the next statement works on.
runFrame(r, places) ==
  CHOOSE done \in
    { requestFrame(drawn) : drawn \in
        { frameRender(moved) : moved \in
            { framePhysics(cleared, places) : cleared \in {[r EXCEPT !.frame = NoFrame]} } } } :
    TRUE

\* Variant: a frame callback that does not look at isRunning.
animate_alwaysRuns(r, places) == runFrame(r, places)

\* animate: one frame.  `frame` records what this call has executed.
animate(r, places) ==
  IF ~r.isRunning THEN [r EXCEPT !.frame = NoFrame] ELSE runFrame(r, places)

GraphRenderer_start(r, places) == animate([r EXCEPT !.isRunning = TRUE], places)

GraphRenderer_stop(r) ==
  IF r.animationFrame # NoRequest
    THEN [r EXCEPT !.isRunning = FALSE,
                   !.frames = r.frames \ {r.animationFrame},
                   !.animationFrame = NoRequest]
    ELSE [r EXCEPT !.isRunning = FALSE]

selectNode(r, id) == [r EXCEPT !.interaction.selectedNode = id]

\* The mousedown listener.
mousedown(r, mouseX, mouseY) ==
  LET pressed(clickedNode) ==
        IF clickedNode # NoNode
          THEN [r EXCEPT !.interaction.isDragging = TRUE,
                         !.interaction.draggedNode = clickedNode,
                         !.nodes[nodeIndex(r, clickedNode)].fx = nodeOf(r, clickedNode).x,
                         !.nodes[nodeIndex(r, clickedNode)].fy = nodeOf(r, clickedNode).y]
          ELSE [r EXCEPT !.interaction.isPanning = TRUE]
  IN [pressed(findNodeAtPosition(r, screenToWorld(r, mouseX, mouseY).x,
                                    screenToWorld(r, mouseX, mouseY).y))
        EXCEPT !.interaction.lastMouseX = mouseX,
               !.interaction.lastMouseY = mouseY,
               !.down = [x |-> mouseX, y |-> mouseY],
               !.clicked = NoNode]

\* The mousemove listener.
mousemove(r, mouseX, mouseY) ==
  LET moved ==
        IF r.interaction.isDragging /\ r.interaction.draggedNode # NoNode
          THEN [r EXCEPT
                  !.nodes[nodeIndex(r, r.interaction.draggedNode)].fx =
                     screenToWorld(r, mouseX, mouseY).x,
                  !.nodes[nodeIndex(r, r.interaction.draggedNode)].fy =
                     screenToWorld(r, mouseX, mouseY).y,
                  !.simulationAlpha = QMax(r.simulationAlpha, Q(3, 10))]
        ELSE IF r.interaction.isPanning
          THEN [r EXCEPT
                  !.viewport.offsetX = QAdd(r.viewport.offsetX,
                                            QSub(mouseX, r.interaction.lastMouseX)),
                  !.viewport.offsetY = QAdd(r.viewport.offsetY,
                                            QSub(mouseY, r.interaction.lastMouseY))]
        ELSE [r EXCEPT !.interaction.hoveredNode =
                          findNodeAtPosition(r, screenToWorld(r, mouseX, mouseY).x,
                                                screenToWorld(r, mouseX, mouseY).y)]
  IN [moved EXCEPT !.interaction.lastMouseX = mouseX,
                   !.interaction.lastMouseY = mouseY,
                   !.clicked = NoNode]

\* The mouseup listener.
mouseup(r, mouseX, mouseY) ==
  LET released ==
        IF r.interaction.isDragging /\ r.interaction.draggedNode # NoNode
          THEN LET unpinned(s) ==
                     [s EXCEPT !.nodes[nodeIndex(r, r.interaction.draggedNode)].fx = Null,
                               !.nodes[nodeIndex(r, r.interaction.draggedNode)].fy = Null]
               IN IF /\ QLess(QAbs(QSub(mouseX, r.interaction.lastMouseX)), I(ClickSlop))
                     /\ QLess(QAbs(QSub(mouseY, r.interaction.lastMouseY)), I(ClickSlop))
                    THEN unpinned([selectNode(r, r.interaction.draggedNode)
                                     EXCEPT !.clicked = r.interaction.draggedNode])
                    ELSE unpinned([r EXCEPT !.clicked = NoNode])
          ELSE [r EXCEPT !.clicked = NoNode]
  IN [released EXCEPT !.interaction.isDragging = FALSE,
                      !.interaction.isPanning = FALSE,
                      !.interaction.draggedNode = NoNode,
                      !.down = NotDown]

clampScale(r, scale) == QMax(r.viewport.minScale, QMin(r.viewport.maxScale, scale))

\* The wheel listener; `zoomIn` is deltaY <= 0.
wheel(r, mouseX, mouseY, zoomIn) ==
  LET recentred(s, worldBefore, worldAfter) ==
        [s EXCEPT !.viewport.offsetX =
                     QAdd(s.viewport.offsetX,
                          QMul(QSub(worldAfter.x, worldBefore.x), s.viewport.scale)),
                  !.viewport.offsetY =
                     QAdd(s.viewport.offsetY,
                          QMul(QSub(worldAfter.y, worldBefore.y), s.viewport.scale))]
      zoomed(s) == recentred(s, screenToWorld(r, mouseX, mouseY),
                                screenToWorld(s, mouseX, mouseY))
  IN zoomed([r EXCEPT !.viewport.scale =
                         clampScale(r, QMul(r.viewport.scale,
                                            IF zoomIn THEN Q(11, 10) ELSE Q(9, 10)))])

\* Math.sqrt on the squares the touches of the model are apart by.
Sqrt(n, most) == CHOOSE k \in 0..most : k * k = n

touchDistance(touches) ==
  I(Sqrt((touches[1].x - touches[2].x) * (touches[1].x - touches[2].x)
           + (touches[1].y - touches[2].y) * (touches[1].y - touches[2].y),
         Abs(touches[1].x - touches[2].x) + Abs(touches[1].y - touches[2].y)))

\* The touchstart and touchmove listeners.
touchstart(r, touches) ==
  IF Len(touches) = 2 THEN [r EXCEPT !.lastTouchDistance = touchDistance(touches)] ELSE r

touchmove(r, touches) ==
  IF Len(touches) = 2
    THEN IF r.lastTouchDistance # Null /\ r.lastTouchDistance # I(0)
           THEN [r EXCEPT !.viewport.scale =
                             clampScale(r, QMul(r.viewport.scale,
                                                QDiv(touchDistance(touches),
                                                     r.lastTouchDistance))),
                          !.lastTouchDistance = touchDistance(touches)]
           ELSE [r EXCEPT !.lastTouchDistance = touchDistance(touches)]
    ELSE r

easeInOutCubic(t) ==
  IF QLess(t, Q(1, 2))
    THEN QMul(I(4), QMul(t, QMul(t, t)))
    ELSE LET cube(u) == QMul(u, QMul(u, u))
         IN QSub(I(1), QDiv(cube(QAdd(QMul(I(-2), t), I(2))), I(2)))

\* One call of the closure of animateViewport, `progress` of the duration
\* after its start; the closure asks for another frame while progress < 1.
viewportFrame(r, transition, progress) ==
  LET between(from, to) == QAdd(from, QMul(QSub(to, from), easeInOutCubic(progress)))
  IN [r EXCEPT !.viewport.offsetX = between(transition.startX, transition.targetX),
               !.viewport.offsetY = between(transition.startY, transition.targetY),
               !.viewport.scale = between(transition.startScale, transition.targetScale),
               !.transitions = IF QLess(progress, I(1))
                                 THEN r.transitions \cup {transition}
                                 ELSE r.transitions \ {transition}]

animateViewport(r, targetX, targetY, targetScale) ==
  viewportFrame(r, [startX |-> r.viewport.offsetX, startY |-> r.viewport.offsetY,
                    startScale |-> r.viewport.scale,
                    targetX |-> targetX, targetY |-> targetY, targetScale |-> targetScale],
                I(0))

\* focusOnNode(nodeId), animated.
focusOnNode(r, nodeId) ==
  IF \A i \in DOMAIN r.nodes : r.nodes[i].id # nodeId THEN r
  ELSE LET focused(node, targetScale) ==
             animateViewport(r, QSub(QDiv(r.width, I(2)), QMul(node.x, targetScale)),
                                QSub(QDiv(r.height, I(2)), QMul(node.y, targetScale)),
                                targetScale)
       IN selectNode(focused(nodeOf(r, nodeId), Q(3, 2)), nodeId)

RECURSIVE QMinOf(_, _, _)
QMinOf(values, i, least) ==
  IF i > Len(values) THEN least ELSE QMinOf(values, i + 1, QMin(least, values[i]))

RECURSIVE QMaxOf(_, _, _)
QMaxOf(values, i, most) ==
  IF i > Len(values) THEN most ELSE QMaxOf(values, i + 1, QMax(most, values[i]))

resetViewport(r) ==
  LET fit(xs, ys) ==
        LET box(minX, maxX, minY, maxY) ==
              LET placed(scale, centerX, centerY) ==
                    [r EXCEPT !.viewport.scale = scale,
                              !.viewport.offsetX = QSub(QDiv(r.width, I(2)), QMul(centerX, scale)),
                              !.viewport.offsetY = QSub(QDiv(r.height, I(2)), QMul(centerY, scale))]
                  scaleX == IF QLess(I(0), QSub(maxX, minX))
                              THEN QDiv(r.width, QAdd(QSub(maxX, minX), I(FocusPadding)))
                              ELSE I(1)
                  scaleY == IF QLess(I(0), QSub(maxY, minY))
                              THEN QDiv(r.height, QAdd(QSub(maxY, minY), I(FocusPadding)))
                              ELSE I(1)
              IN placed(QMin(QMin(scaleX, scaleY), I(1)),
                        QDiv(QAdd(minX, maxX), I(2)), QDiv(QAdd(minY, maxY), I(2)))
        IN box(QMinOf(xs, 2, xs[1]), QMaxOf(xs, 2, xs[1]),
               QMinOf(ys, 2, ys[1]), QMaxOf(ys, 2, ys[1]))
      shown(visibleNodes) ==
        IF Len(visibleNodes) = 0
          THEN [r EXCEPT !.viewport.scale = I(1), !.viewport.offsetX = I(0),
                         !.viewport.offsetY = I(0)]
          ELSE fit([i \in DOMAIN visibleNodes |-> visibleNodes[i].x],
                   [i \in DOMAIN visibleNodes |-> visibleNodes[i].y])
  IN shown(SelectSeq(r.nodes, LAMBDA node : node.visible # FALSE))

\* The zoom-in and zoom-out buttons of the application.
zoomInButton(r) == [r EXCEPT !.viewport.scale = QMul(r.viewport.scale, Q(12, 10))]

zoomOutButton(r) == [r EXCEPT !.viewport.scale = QDiv(r.viewport.scale, Q(12, 10))]

(***************************************************************************)
(* SearchEngine.  search(query) with the default options (no type filter,   *)
(* no date range, maxResults 50, fuzzy matching on).  The cache of all      *)
(* entities has lastUpdated "null" until getAllEntities has filled it.       *)
(***************************************************************************)
FuzzyTermMaxDistance == 2   \* fuzzyMatch: Math.min(2, Math.floor(term.length / 3))
FuzzyTermDivisor == 3
MinTermLength == 2          \* fuzzySearch: term.length < 2 is skipped
MinIndexWordLength == 2     \* DBManager.searchIndex: w.length > 2

SearchEngine ==
  [cache |-> [allEntities |-> <<>>, lastUpdated |-> "null"],
   query |-> <<>>,
   results |-> {}]

\* String.prototype.includes
stringIncludes(text, term) ==
  \E i \in 0..(Len(text) - Len(term)) : SubSeq(text, i + 1, i + Len(term)) = term

fuzzyMatch(text, term) ==
  \E word \in Range(splitWords(text, 1, <<>>, <<>>)) :
     levenshteinDistance(word, term)
       <= Min2(FuzzyTermMaxDistance, Len(term) \div FuzzyTermDivisor)

\* One term of the query against one entity: the three branches of fuzzySearch.
termMatches(entity, term) ==
  /\ Len(term) >= MinTermLength
  /\ \/ stringIncludes(toLowerCase(entity.name), term)
     \/ stringIncludes(toLowerCase(entity.description), term)
     \/ fuzzyMatch(toLowerCase(entity.name \o <<" ">> \o entity.description), term)

\* The entities with matches > 0, in the order of the scan.
fuzzySearch(entities, query) ==
  SelectSeq(entities, LAMBDA entity :
    \E term \in Range(splitWords(query, 1, <<>>, <<>>)) : termMatches(entity, term))

\* DBManager.searchIndex: the ids the index holds for the words of the query
\* that are longer than two characters, each read back with getEntity.
searchIndex(indexStore, entityStore, query) ==
  LET words == SelectSeq(splitWords(toLowerCase(query), 1, <<>>, <<>>),
                         LAMBDA w : Len(w) > MinIndexWordLength)
      entityIds == UNION {Range(indexStore[w].entities) : w \in Range(words) \cap DOMAIN indexStore}
  IN entityIds \cap DOMAIN entityStore

\* The ids of the entities search returns.  scoreResults orders them and
\* slice(0, maxResults) keeps them all: the model holds fewer than 50.
search(indexStore, entityStore, allEntities, query) ==
  LET merged(searchTerm) ==
        searchIndex(indexStore, entityStore, searchTerm)
          \cup {e.id : e \in Range(fuzzySearch(allEntities, searchTerm))}
  IN merged(trim(toLowerCase(query)))

(***************************************************************************)
(* State                                                                    *)
(***************************************************************************)
VARIABLES
  dbEntities,        \* object store 'entities': id -> entity
  dbConversations,   \* object store 'conversations': id -> conversation summary
  dbTimeline,        \* object store 'timeline': date -> entry
  dbSearchIndex,     \* object store 'searchIndex': word -> {word, entities}
  dbMetadata,        \* object store 'metadata': key -> value
  processor,         \* the MemoryProcessor object of the current or last run
  call,              \* the arguments of the current or last processConversations
  toProcess,         \* conversationsToProcess
  batchIndex,        \* the loop variable i of the batch loop
  pc,                \* where the current call stands
  events,            \* the progress events the call has emitted
  handled,           \* what the application's callback did with each event
  writes,            \* the object stores the call has put to, in order
  outcome,           \* how the last call ended
  runs,              \* number of calls made
  committed,         \* the four data stores as they were when the call began
  failedWrite,       \* the object store a request of the call failed on
  failures,          \* number of failed store requests so far
  history,           \* the completed calls (threshold, mode, conversations
                     \* processed), where the specification keeps them
  renderer,          \* the GraphRenderer object
  searchEngine       \* the SearchEngine object of the page: its cache, and the
                     \* query and result ids of its last search

processorVarsButSearch ==
  <<dbEntities, dbConversations, dbTimeline, dbSearchIndex, dbMetadata, processor, call,
    toProcess, batchIndex, pc, events, handled, writes, outcome, runs, committed,
    failedWrite, failures, history>>
dbVars == <<dbEntities, dbConversations, dbTimeline, dbSearchIndex, dbMetadata>>
dataStores == <<dbEntities, dbConversations, dbTimeline, dbSearchIndex>>
failVars == <<committed, failedWrite, failures>>
vars == <<dbEntities, dbConversations, dbTimeline, dbSearchIndex, dbMetadata,
          processor, call, toProcess, batchIndex, pc, events, handled, writes,
          outcome, runs, committed, failedWrite, failures, history, renderer, searchEngine>>

\* new MemoryProcessor(dbManager); nonce, calls, error, processed and removed
\* are bookkeeping of the model (id counter, getOrCreateEntity calls, the
\* exception thrown, the ids of the conversations processConversation has
\* finished, the ids the sparse filter deleted).
MemoryProcessor(minOccurrences, nonce) ==
  [ entities             |-> <<>>,
    conversationEntities |-> <<>>,
    timeline             |-> <<>>,
    processedCount       |-> 0,
    totalConversations   |-> 0,
    minOccurrences       |-> minOccurrences,
    nonce                |-> nonce,
    calls                |-> <<>>,
    error                |-> "none",
    processed            |-> <<>>,
    removed              |-> {} ]

NoCall == [conversations |-> <<>>, onProgress |-> "simple", resumeMode |-> FALSE,
           customRange |-> NoRange]

ProcessorInit ==
  /\ dbEntities = EmptyStore
  /\ dbConversations = EmptyStore
  /\ dbTimeline = EmptyStore
  /\ dbSearchIndex = EmptyStore
  /\ dbMetadata = EmptyStore
  /\ processor = MemoryProcessor(DefaultMinOccurrences, 1)
  /\ call = NoCall
  /\ toProcess = <<>>
  /\ batchIndex = 0
  /\ pc = "idle"
  /\ events = <<>>
  /\ handled = <<>>
  /\ writes = <<>>
  /\ outcome = "none"
  /\ runs = 0
  /\ committed = <<EmptyStore, EmptyStore, EmptyStore, EmptyStore>>
  /\ failedWrite = "none"
  /\ failures = 0

\* The completed calls are kept only where a specification starts with
\* history.kept = TRUE.
History(kept) == [kept |-> kept, calls |-> <<>>]

Init ==
  /\ ProcessorInit
  /\ history = History(FALSE)
  /\ searchEngine = SearchEngine
  /\ renderer = GraphRenderer(CanvasWidth, CanvasHeight)

loadExistingEntities(p, entityStore, conversationStore) ==
  [p EXCEPT !.entities = getAllEntities(entityStore),
            !.conversationEntities = getAllConversations(conversationStore)]

\* Variant: nothing is filtered out.
filterNewConversations_all(conversations, conversationStore) == conversations

filterNewConversations(conversations, conversationStore) ==
  SelectSeq(conversations, LAMBDA conv : conv.id \notin DOMAIN conversationStore)

\* toFixed(1) of processed / total * 100, in tenths of a percent
percentage(processed, total) == (2000 * processed + total) \div (2 * total)

(***************************************************************************)
(* processConversations, from its call to the first batch (or to its return *)
(* when nothing is left to process)                                         *)
(***************************************************************************)
ProcessConversations(c, minOccurrences) ==
  /\ runs < MaxRuns
  /\ LET fresh == MemoryProcessor(minOccurrences, processor.nonce)
         progress(loaded) ==
           [processed |-> Len(c.conversations),
            total |-> Len(c.conversations),
            percentage |-> 1000,
            entitiesFound |-> Len(loaded.entities),
            recentBatch |-> 0,
            alreadyProcessed |-> TRUE]
         nothingToProcess(loaded, event, result) ==
           /\ processor' = loaded
           /\ events' = <<event>>
           /\ handled' = <<result>>
           /\ outcome' = IF result = "TypeError" THEN "error" ELSE "nothingToProcess"
           /\ pc' = "done"
         start(loaded, conversationsToProcess) ==
           /\ toProcess' = conversationsToProcess
           /\ IF Len(conversationsToProcess) = 0
                THEN nothingToProcess(loaded, progress(loaded),
                                      callOnProgress(c.onProgress, progress(loaded)))
                ELSE /\ processor' = [loaded EXCEPT
                                        !.totalConversations = Len(conversationsToProcess),
                                        !.processedCount = 0]
                     /\ events' = <<>>
                     /\ handled' = <<>>
                     /\ outcome' = "running"
                     /\ pc' = "batching"
     IN /\ call' = c
        /\ runs' = runs + 1
        /\ batchIndex' = 0
        /\ writes' = <<>>
        /\ start(IF c.resumeMode
                   THEN loadExistingEntities(fresh, dbEntities, dbConversations)
                   ELSE fresh,
                 filterNewConversations(c.conversations, dbConversations))
  /\ committed' = dataStores
  /\ failedWrite' = "none"
  /\ UNCHANGED <<dbVars, failures, renderer, history, searchEngine>>

\* One turn of the batch loop: processBatch, the progress event, sleep.
ProcessBatch ==
  /\ pc = "batching"
  /\ LET last == Min2(batchIndex + batchSize, Len(toProcess))
         batch == SubSeq(toProcess, batchIndex + 1, last)
         progress(after) ==
           [processed |-> after.processedCount,
            total |-> after.totalConversations,
            percentage |-> percentage(after.processedCount, after.totalConversations),
            entitiesFound |-> Len(after.entities),
            recentBatch |-> Len(batch),
            resumeMode |-> call.resumeMode]
         report(event, result) ==
           /\ events' = Append(events, event)
           /\ handled' = Append(handled, result)
           /\ IF result = "TypeError"
                THEN pc' = "done" /\ outcome' = "error"
                ELSE /\ pc' = IF batchIndex + batchSize < Len(toProcess)
                                THEN "batching" ELSE "filtering"
                     /\ outcome' = outcome
         thrown(after) ==
           /\ processor' = after
           /\ pc' = "done"
           /\ outcome' = "error"
           /\ UNCHANGED <<events, handled>>
         returned(after) ==
           /\ processor' = after
           /\ report(progress(after), callOnProgress(call.onProgress, progress(after)))
         turn(after) ==
           IF after.error # "none"
             THEN thrown(after)
             ELSE returned([after EXCEPT !.processedCount = last])
     IN /\ turn(processBatch(processor, batch, 1))
        /\ batchIndex' = batchIndex + batchSize
  /\ UNCHANGED <<dbVars, call, toProcess, writes, runs, failVars, renderer, history, searchEngine>>

\* filterSparseEntities, then computeRelationships at the head of saveToDatabase.
FilterSparse ==
  /\ pc = "filtering"
  /\ LET related(filtered) ==
           [filtered EXCEPT
              !.entities = computeRelationships(@, filtered.conversationEntities, 1)]
     IN processor' = related(filterSparseEntities(processor, processor.minOccurrences))
  /\ pc' = "saveEntities"
  /\ UNCHANGED <<dbVars, call, toProcess, batchIndex, events, handled, writes, outcome, runs, failVars, renderer, history, searchEngine>>

Puts(store, n) == [i \in 1..n |-> store]

SaveEntities ==
  /\ pc = "saveEntities"
  /\ dbEntities' = saveEntities(dbEntities, processor.entities, 1)
  /\ writes' = writes \o Puts("entities", Len(processor.entities))
  /\ pc' = "saveConversations"
  /\ UNCHANGED <<dbConversations, dbTimeline, dbSearchIndex, dbMetadata, processor, call,
                 toProcess, batchIndex, events, handled, outcome, runs, failVars, renderer, history, searchEngine>>

SaveConversations ==
  /\ pc = "saveConversations"
  /\ dbConversations' = saveConversations(dbConversations, processor.conversationEntities, 1)
  /\ writes' = writes \o Puts("conversations", Len(processor.conversationEntities))
  /\ pc' = "saveTimeline"
  /\ UNCHANGED <<dbEntities, dbTimeline, dbSearchIndex, dbMetadata, processor, call,
                 toProcess, batchIndex, events, handled, outcome, runs, failVars, renderer, history, searchEngine>>

SaveTimeline ==
  /\ pc = "saveTimeline"
  /\ dbTimeline' = saveTimeline(dbTimeline, buildTimeline(processor.timeline), 1)
  /\ writes' = writes \o Puts("timeline", Len(processor.timeline))
  /\ pc' = "buildSearchIndex"
  /\ UNCHANGED <<dbEntities, dbConversations, dbSearchIndex, dbMetadata, processor, call,
                 toProcess, batchIndex, events, handled, outcome, runs, failVars, renderer, history, searchEngine>>

BuildSearchIndex ==
  /\ pc = "buildSearchIndex"
  /\ dbSearchIndex' = buildSearchIndex(dbSearchIndex, processor.entities, 1)
  /\ writes' = writes \o Puts("searchIndex", countWords(processor.entities, 1))
  /\ pc' = "saveMetadata"
  /\ UNCHANGED <<dbEntities, dbConversations, dbTimeline, dbMetadata, processor, call,
                 toProcess, batchIndex, events, handled, outcome, runs, failVars, renderer, history, searchEngine>>

\* saveMetadata('lastProcessedTime', Date.now()) and
\* saveMetadata('totalConversationsProcessed', conversations.length); the
\* number of the call stands for the clock.
SaveMetadata ==
  /\ pc = "saveMetadata"
  /\ dbMetadata' = dbPut(dbPut(dbMetadata, "lastProcessedTime", runs),
                         "totalConversationsProcessed", Len(call.conversations))
  /\ writes' = writes \o Puts("metadata", 2)
  /\ pc' = "done"
  /\ outcome' = "completed"
  /\ history' = IF history.kept
                  THEN [history EXCEPT
                          !.calls = Append(@, [minOccurrences |-> processor.minOccurrences,
                                               resumeMode |-> call.resumeMode,
                                               processed |-> toProcess])]
                  ELSE history
  /\ UNCHANGED <<dbEntities, dbConversations, dbTimeline, dbSearchIndex, processor, call,
                 toProcess, batchIndex, events, handled, runs, failVars, renderer, searchEngine>>

\* location.reload() in processNewConversations: the page starts again on the
\* welcome screen; nothing but the store (and the clock) survives.
Reload ==
  /\ pc = "done"
  /\ pc' = "idle"
  /\ processor' = MemoryProcessor(DefaultMinOccurrences, processor.nonce)
  /\ call' = NoCall
  /\ toProcess' = <<>>
  /\ batchIndex' = 0
  /\ events' = <<>>
  /\ handled' = <<>>
  /\ writes' = <<>>
  /\ outcome' = "none"
  /\ committed' = dataStores
  /\ failedWrite' = "none"
  /\ searchEngine' = SearchEngine
  /\ UNCHANGED <<dbVars, runs, failures, renderer, history>>

\* A caller sets processor.minOccurrences and calls processConversations.
StartProcessing ==
  /\ pc = "idle"
  /\ \E c \in Calls, k \in 1..MaxMinOcc : ProcessConversations(c, k)

Next ==
  \/ StartProcessing
  \/ Reload
  \/ ProcessBatch
  \/ FilterSparse
  \/ SaveEntities
  \/ SaveConversations
  \/ SaveTimeline
  \/ BuildSearchIndex
  \/ SaveMetadata

Spec == Init /\ [][Next]_vars

\* The same calls, with the completed ones kept in history.
HistoryInit ==
  /\ ProcessorInit
  /\ history = History(TRUE)
  /\ searchEngine = SearchEngine
  /\ renderer = GraphRenderer(CanvasWidth, CanvasHeight)

HistorySpec == HistoryInit /\ [][Next]_vars

(***************************************************************************)
(* Searching in the main view, and the first MemoryGraphApp's               *)
(* reprocessData, which clears the store and starts again in the same page. *)
(***************************************************************************)
Queries == {NamePythom, <<"a", "n">>, <<" ", "A", "n", "n", "a", " ">>}

MainAppShown == pc = "done" /\ outcome \in {"completed", "nothingToProcess"}

\* performSearch(query): SearchEngine.search with getAllEntities, which
\* answers from the cache while it is less than five minutes old (recent).
Search ==
  /\ MainAppShown
  /\ \E query \in Queries, recent \in BOOLEAN :
       LET found(allEntities) ==
             [cache |-> [allEntities |-> allEntities, lastUpdated |-> "set"],
              query |-> query,
              results |-> search(dbSearchIndex, dbEntities, allEntities, query)]
       IN searchEngine' =
            found(IF searchEngine.cache.lastUpdated # "null" /\ recent
                    THEN searchEngine.cache.allEntities
                    ELSE getAllEntities(dbEntities))
  /\ UNCHANGED <<processorVarsButSearch, renderer>>

\* reprocessData up to its fetch of conversations.json: clearAll.
ReprocessData ==
  /\ MainAppShown
  /\ call.onProgress = "simple"
  /\ runs < MaxRuns
  /\ dbEntities' = EmptyStore
  /\ dbConversations' = EmptyStore
  /\ dbTimeline' = EmptyStore
  /\ dbSearchIndex' = EmptyStore
  /\ dbMetadata' = EmptyStore
  /\ pc' = "reprocessing"
  /\ UNCHANGED <<processor, call, toProcess, batchIndex, events, handled, writes, outcome,
                 runs, failVars, history, renderer, searchEngine>>

\* startProcessing from reprocessData: a new MemoryProcessor with the
\* default threshold processes the file fetched now.
StartReprocessing ==
  /\ pc = "reprocessing"
  /\ \E conversations \in InputArrays :
       ProcessConversations([conversations |-> conversations, onProgress |-> "simple",
                             resumeMode |-> FALSE, customRange |-> NoRange],
                            DefaultMinOccurrences)

SearchNext ==
  \/ StartProcessing
  \/ Reload
  \/ ProcessBatch
  \/ FilterSparse
  \/ SaveEntities
  \/ SaveConversations
  \/ SaveTimeline
  \/ BuildSearchIndex
  \/ SaveMetadata
  \/ Search
  \/ ReprocessData
  \/ StartReprocessing

SearchSpec == Init /\ [][SearchNext]_vars

(***************************************************************************)
(* Export files that hold a conversation id more than once.                 *)
(***************************************************************************)
RepeatedCalls ==
  [conversations : {<<ExportFile[i], ExportFile[i]>> : i \in DOMAIN ExportFile},
   onProgress : {"simple"}, resumeMode : {TRUE}, customRange : {NoRange}]

StartRepeated ==
  /\ pc = "idle"
  /\ \E c \in RepeatedCalls, k \in 1..MaxMinOcc : ProcessConversations(c, k)

RepeatNext ==
  \/ StartProcessing
  \/ StartRepeated
  \/ Reload
  \/ ProcessBatch
  \/ FilterSparse
  \/ SaveEntities
  \/ SaveConversations
  \/ SaveTimeline
  \/ BuildSearchIndex
  \/ SaveMetadata

RepeatSpec == Init /\ [][RepeatNext]_vars

(***************************************************************************)
(* Failing store requests.  performTransaction rejects when the request it  *)
(* is given fires onerror; every save of saveToDatabase is awaited, so the  *)
(* rejection leaves processConversations as an exception.  Every put has a  *)
(* transaction of its own: the puts made before stay in the store.          *)
(***************************************************************************)
without(seq, n) == SubSeq(seq, 1, n - 1) \o SubSeq(seq, n + 1, Len(seq))

\* The put of the n-th entity fails.
FailSaveEntity ==
  /\ pc = "saveEntities"
  /\ failures < MaxFailures
  /\ \E n \in DOMAIN processor.entities :
        /\ dbEntities' = saveEntities(dbEntities, SubSeq(processor.entities, 1, n - 1), 1)
        /\ writes' = writes \o Puts("entities", n - 1)
  /\ failedWrite' = "entities"
  /\ failures' = failures + 1
  /\ pc' = "done"
  /\ outcome' = "error"
  /\ UNCHANGED <<dbConversations, dbTimeline, dbSearchIndex, dbMetadata, processor, call,
                 toProcess, batchIndex, events, handled, runs, committed, renderer, history, searchEngine>>

\* The put of the n-th conversation summary fails.
FailSaveConversation ==
  /\ pc = "saveConversations"
  /\ failures < MaxFailures
  /\ \E n \in DOMAIN processor.conversationEntities :
        /\ dbConversations' =
             saveConversations(dbConversations,
                               SubSeq(processor.conversationEntities, 1, n - 1), 1)
        /\ writes' = writes \o Puts("conversations", n - 1)
  /\ failedWrite' = "conversations"
  /\ failures' = failures + 1
  /\ pc' = "done"
  /\ outcome' = "error"
  /\ UNCHANGED <<dbEntities, dbTimeline, dbSearchIndex, dbMetadata, processor, call,
                 toProcess, batchIndex, events, handled, runs, committed, renderer, history, searchEngine>>

\* DBManager.saveTimeline starts every put at once and awaits Promise.all:
\* when the put of the n-th entry fails the other entries are still written.
FailSaveTimeline ==
  /\ pc = "saveTimeline"
  /\ failures < MaxFailures
  /\ \E n \in DOMAIN processor.timeline :
        dbTimeline' = saveTimeline(dbTimeline, without(buildTimeline(processor.timeline), n), 1)
  /\ writes' = writes \o Puts("timeline", Len(processor.timeline) - 1)
  /\ failedWrite' = "timeline"
  /\ failures' = failures + 1
  /\ pc' = "done"
  /\ outcome' = "error"
  /\ UNCHANGED <<dbEntities, dbConversations, dbSearchIndex, dbMetadata, processor, call,
                 toProcess, batchIndex, events, handled, runs, committed, renderer, history, searchEngine>>

\* The addToSearchIndex calls of buildSearchIndex, in order.
RECURSIVE indexCalls(_, _)
indexCalls(entities, i) ==
  IF i > Len(entities) THEN <<>>
  ELSE LET calls(words) == [w \in DOMAIN words |->
                              [word |-> words[w], entityId |-> entities[i].id]]
       IN calls(searchWords(entities[i])) \o indexCalls(entities, i + 1)

RECURSIVE addAllToSearchIndex(_, _, _)
addAllToSearchIndex(store, calls, i) ==
  IF i > Len(calls) THEN store
  ELSE addAllToSearchIndex(addToSearchIndex(store, calls[i].word, calls[i].entityId),
                           calls, i + 1)

\* The store.get of the n-th addToSearchIndex fails: promisifyRequest rejects.
FailSearchIndexGet ==
  /\ pc = "buildSearchIndex"
  /\ failures < MaxFailures
  /\ LET fail(calls) ==
           \E n \in DOMAIN calls :
              /\ dbSearchIndex' = addAllToSearchIndex(dbSearchIndex, SubSeq(calls, 1, n - 1), 1)
              /\ writes' = writes \o Puts("searchIndex", n - 1)
     IN fail(indexCalls(processor.entities, 1))
  /\ failedWrite' = "searchIndex"
  /\ failures' = failures + 1
  /\ pc' = "done"
  /\ outcome' = "error"
  /\ UNCHANGED <<dbEntities, dbConversations, dbTimeline, dbMetadata, processor, call,
                 toProcess, batchIndex, events, handled, runs, committed, renderer, history, searchEngine>>

\* The store.put of the n-th addToSearchIndex fails.  The async operation
\* returns the IDBRequest of the put, so performTransaction resolves with it
\* at once and nothing listens to its onerror: the word is not written and
\* buildSearchIndex goes on.
FailSearchIndexPut ==
  /\ pc = "buildSearchIndex"
  /\ failures < MaxFailures
  /\ LET fail(calls) ==
           \E n \in DOMAIN calls :
              /\ dbSearchIndex' = addAllToSearchIndex(dbSearchIndex, without(calls, n), 1)
              /\ writes' = writes \o Puts("searchIndex", Len(calls) - 1)
     IN fail(indexCalls(processor.entities, 1))
  /\ failedWrite' = "searchIndex"
  /\ failures' = failures + 1
  /\ pc' = "saveMetadata"
  /\ UNCHANGED <<dbEntities, dbConversations, dbTimeline, dbMetadata, processor, call,
                 toProcess, batchIndex, events, handled, outcome, runs, committed, renderer, history, searchEngine>>

FailNext ==
  \/ StartProcessing
  \/ Reload
  \/ ProcessBatch
  \/ FilterSparse
  \/ SaveEntities
  \/ SaveConversations
  \/ SaveTimeline
  \/ BuildSearchIndex
  \/ SaveMetadata
  \/ FailSaveEntity
  \/ FailSaveConversation
  \/ FailSaveTimeline
  \/ FailSearchIndexGet
  \/ FailSearchIndexPut

FailSpec == Init /\ [][FailNext]_vars

(***************************************************************************)
(* The graph view: a renderer loaded with NodeCount entities that link one  *)
(* another, at random places, under a panned and zoomed viewport.           *)
(***************************************************************************)
processorVars == <<dbEntities, dbConversations, dbTimeline, dbSearchIndex, dbMetadata,
                   processor, call, toProcess, batchIndex, pc, events, handled, writes,
                   outcome, runs, committed, failedWrite, failures, history,
                   searchEngine>>

GraphTypes == <<"person", "project">>
GraphEntities ==
  [i \in 1..NodeCount |->
     [id |-> i, type |-> GraphTypes[((i - 1) % 2) + 1],
      links |-> SelectSeq([j \in 1..NodeCount |-> j], LAMBDA j : j # i)]]

\* Places just inside and just outside the extended view of the viewports below.
Positions == [x : {-301, -300, 900, 901}, y : {-100, 701}]
Viewports == [offsetX : {I(0), I(200)}, offsetY : {I(0)}, scale : {I(1), I(2)}]
TypeFilters == {<<>>, <<"person">>, <<"project">>}

RendererInit ==
  /\ ProcessorInit
  /\ history = History(FALSE)
  /\ searchEngine = SearchEngine
  /\ \E positions \in [1..NodeCount -> Positions], viewport \in Viewports :
        renderer = [loadData(GraphRenderer(CanvasWidth, CanvasHeight),
                             GraphEntities, positions)
                      EXCEPT !.viewport.offsetX = viewport.offsetX,
                             !.viewport.offsetY = viewport.offsetY,
                             !.viewport.scale = viewport.scale]

FilterByType ==
  /\ \E types \in TypeFilters : renderer' = filterByType(renderer, types)
  /\ UNCHANGED processorVars

UpdateVisibleElements ==
  /\ renderer' = updateVisibleElements(renderer)
  /\ UNCHANGED processorVars

RendererNext ==
  \/ FilterByType
  \/ UpdateVisibleElements

RendererSpec == RendererInit /\ [][RendererNext]_vars

(***************************************************************************)
(* The animation loop: the application's calls of start and stop, the       *)
(* browser's calls of the requested frame callbacks, and the mouse over     *)
(* the place of the first node, which drags and reheats.  Start is enabled  *)
(* while fewer than MaxFrames callbacks are pending.                        *)
(***************************************************************************)
Centre == [x |-> CanvasWidth \div 2, y |-> CanvasHeight \div 2]
Aside == [x |-> Centre.x + 200, y |-> Centre.y]

\* Where initializeLayout puts the nodes, and where the forces bring them.
Layouts ==
  { [i \in 1..NodeCount |-> IF i = 1 THEN Centre ELSE Aside] }

placesOf(layout) == [i \in DOMAIN layout |-> [x |-> I(layout[i].x), y |-> I(layout[i].y)]]

AnimationInit ==
  /\ ProcessorInit
  /\ history = History(FALSE)
  /\ searchEngine = SearchEngine
  /\ \E layout \in Layouts :
        renderer = loadData(GraphRenderer(CanvasWidth, CanvasHeight), GraphEntities, layout)

Start ==
  /\ Cardinality(renderer.frames) < MaxFrames
  /\ \E layout \in Layouts : renderer' = GraphRenderer_start(renderer, placesOf(layout))
  /\ UNCHANGED processorVars

Stop ==
  /\ renderer' = GraphRenderer_stop(renderer)
  /\ UNCHANGED processorVars

\* The browser calls one of the requested callbacks.
Animate ==
  /\ \E id \in renderer.frames, layout \in Layouts :
        renderer' = animate([renderer EXCEPT !.frames = renderer.frames \ {id}],
                            placesOf(layout))
  /\ UNCHANGED processorVars

PressAtCentre ==
  /\ renderer' = mousedown(renderer, I(Centre.x), I(Centre.y))
  /\ UNCHANGED processorVars

MoveAtCentre ==
  /\ renderer' = mousemove(renderer, I(Centre.x), I(Centre.y))
  /\ UNCHANGED processorVars

ReleaseAtCentre ==
  /\ renderer' = mouseup(renderer, I(Centre.x), I(Centre.y))
  /\ UNCHANGED processorVars

AnimationNext ==
  \/ Start
  \/ Stop
  \/ Animate
  \/ PressAtCentre
  \/ MoveAtCentre
  \/ ReleaseAtCentre

AnimationSpec == AnimationInit /\ [][AnimationNext]_vars

\* The browser calls every requested callback.
FairAnimationSpec == AnimationSpec /\ WF_vars(Animate)

(***************************************************************************)
(* The mouse on the graph the application shows: loaded, started and fitted *)
(* (showMainApp) with the simulation settled.  The pointer is pressed, moved *)
(* and released at the places of the two first nodes and at an empty place. *)
(* The canvas is panned at most MaxPan pixels.                              *)
(***************************************************************************)
ShownGraph ==
  LET settled(r) == [r EXCEPT !.simulationAlpha = I(0), !.frame.physics = FALSE]
      shown(layout) ==
        resetViewport(GraphRenderer_start(
          loadData(GraphRenderer(CanvasWidth, CanvasHeight), GraphEntities, layout),
          placesOf(layout)))
  IN {settled(shown(layout)) : layout \in Layouts}

\* Where a world place is on the canvas of the shown graph.
MousePoint(place) ==
  LET at(r) == [x |-> QAdd(QMul(I(place.x), r.viewport.scale), r.viewport.offsetX),
                y |-> QAdd(QMul(I(place.y), r.viewport.scale), r.viewport.offsetY)]
  IN at(CHOOSE r \in ShownGraph : TRUE)

MousePoints ==
  {MousePoint(Centre), MousePoint(Aside), MousePoint([x |-> Centre.x, y |-> Centre.y - 200])}

Pannable(r) ==
  \A shown \in ShownGraph :
     /\ QLeq(QAbs(QSub(r.viewport.offsetX, shown.viewport.offsetX)), I(MaxPan))
     /\ QLeq(QAbs(QSub(r.viewport.offsetY, shown.viewport.offsetY)), I(MaxPan))

InteractionInit ==
  /\ ProcessorInit
  /\ history = History(FALSE)
  /\ searchEngine = SearchEngine
  /\ renderer \in ShownGraph

MouseDown ==
  /\ \E p \in MousePoints : renderer' = mousedown(renderer, p.x, p.y)
  /\ UNCHANGED processorVars

MouseMove ==
  /\ \E p \in MousePoints :
        /\ Pannable(mousemove(renderer, p.x, p.y))
        /\ renderer' = mousemove(renderer, p.x, p.y)
  /\ UNCHANGED processorVars

MouseUp ==
  /\ \E p \in MousePoints : renderer' = mouseup(renderer, p.x, p.y)
  /\ UNCHANGED processorVars

InteractionNext ==
  \/ MouseDown
  \/ MouseMove
  \/ MouseUp

InteractionSpec == InteractionInit /\ [][InteractionNext]_vars

(***************************************************************************)
(* Hit-testing under the type filter: the renderer is started, the browser  *)
(* calls the frame callback, the application applies a type filter, and the *)
(* mouse is pressed, moved and released at the place of the first node.     *)
(***************************************************************************)
HitTestNext ==
  \/ Start
  \/ Animate
  \/ FilterByType
  \/ PressAtCentre
  \/ MoveAtCentre
  \/ ReleaseAtCentre

HitTestSpec == AnimationInit /\ [][HitTestNext]_vars

(***************************************************************************)
(* The viewport of the shown graph under the wheel, two-finger touches,     *)
(* the zoom buttons, the fit-view button and focusOnNode.  A behaviour      *)
(* zooms or focuses up to MaxZoomSteps times.                               *)
(***************************************************************************)
Touch(x, y) == [x |-> x, y |-> y]

\* One finger, two fingers 100 px apart, two fingers 500 px apart.
TouchLists ==
  { <<Touch(300, 300)>>,
    <<Touch(300, 300), Touch(400, 300)>>,
    <<Touch(200, 100), Touch(500, 500)>> }

\* elapsed / duration of a call of the closure of animateViewport.
Progresses == {Q(1, 2), I(1)}

Zoomed(r) == [r EXCEPT !.zoomSteps = r.zoomSteps + 1]

Wheel ==
  /\ renderer.zoomSteps < MaxZoomSteps
  /\ \E p \in MousePoints, zoomIn \in BOOLEAN :
        renderer' = Zoomed(wheel(renderer, p.x, p.y, zoomIn))
  /\ UNCHANGED processorVars

TouchStart ==
  /\ \E touches \in TouchLists : renderer' = touchstart(renderer, touches)
  /\ UNCHANGED processorVars

TouchMove ==
  /\ renderer.zoomSteps < MaxZoomSteps
  /\ \E touches \in TouchLists : renderer' = Zoomed(touchmove(renderer, touches))
  /\ UNCHANGED processorVars

ZoomInButton ==
  /\ renderer.zoomSteps < MaxZoomSteps
  /\ renderer' = Zoomed(zoomInButton(renderer))
  /\ UNCHANGED processorVars

ZoomOutButton ==
  /\ renderer.zoomSteps < MaxZoomSteps
  /\ renderer' = Zoomed(zoomOutButton(renderer))
  /\ UNCHANGED processorVars

FitView ==
  /\ renderer' = resetViewport(renderer)
  /\ UNCHANGED processorVars

FocusOnNode ==
  /\ renderer.zoomSteps < MaxZoomSteps
  /\ renderer.transitions = {}
  /\ \E i \in DOMAIN renderer.nodes :
        renderer' = Zoomed(focusOnNode(renderer, renderer.nodes[i].id))
  /\ UNCHANGED processorVars

\* The browser calls the closure of a pending animateViewport.
ViewportFrame ==
  /\ \E transition \in renderer.transitions, progress \in Progresses :
        renderer' = viewportFrame([renderer EXCEPT !.transitions = @ \ {transition}],
                                  transition, progress)
  /\ UNCHANGED processorVars

ZoomNext ==
  \/ Wheel
  \/ TouchStart
  \/ TouchMove
  \/ ZoomInButton
  \/ ZoomOutButton
  \/ FitView
  \/ FocusOnNode
  \/ ViewportFrame

ZoomSpec == InteractionInit /\ [][ZoomNext]_vars

(***************************************************************************)
(* Properties                                                               *)
(***************************************************************************)
Completed == pc = "done" /\ outcome = "completed"

keyOf(c) == normalizeEntityName(c.extracted.name)

\* Indices of the entities the call found in the live map with the
\* candidate's type and an identical key / a key within the fuzzy distance.
SameKey(c) ==
  {j \in DOMAIN c.before :
     c.before[j].type = c.extracted.type /\ c.before[j].normalizedKey = keyOf(c)}

NearKey(c) ==
  {j \in DOMAIN c.before :
     /\ c.before[j].type = c.extracted.type
     /\ levenshteinDistance(c.before[j].normalizedKey, keyOf(c)) <= 2}

\* C1: a candidate whose normalized key equals the key of a same-type entity
\* of the live map gets the id of such an entity, and the map does not grow.
C1_ExactKeyReturnsExisting ==
  \A i \in DOMAIN processor.calls :
     LET c == processor.calls[i]
     IN SameKey(c) # {} =>
          /\ \E j \in SameKey(c) : c.id = c.before[j].id
          /\ c.sizeAfter = Len(c.before)

\* A call resolved a candidate to an entity created under a different name
\* with the same key.
C1_Witness ==
  \E i \in DOMAIN processor.calls :
     LET c == processor.calls[i]
     IN \E j \in SameKey(c) : c.before[j].name # c.extracted.name /\ c.id = c.before[j].id

\* C2: without an identical same-type key, a candidate with a key longer than
\* 5 and a same-type key within distance 2 is merged into such an entity and
\* nothing is created; with a key of length <= 5, or every same-type key
\* further than 2 away, a new entity is created.
C2_FuzzyMergeOrCreate ==
  \A i \in DOMAIN processor.calls :
     LET c == processor.calls[i]
     IN SameKey(c) = {} =>
          IF Len(keyOf(c)) > 5 /\ NearKey(c) # {}
            THEN /\ \E j \in NearKey(c) : c.id = c.before[j].id
                 /\ c.sizeAfter = Len(c.before)
            ELSE /\ \A j \in DOMAIN c.before : c.before[j].id # c.id
                 /\ c.sizeAfter = Len(c.before) + 1

\* One run saw a fuzzy merge, a short key next to a near key, and a long key
\* with no near key.
C2_Witness ==
  /\ \E i \in DOMAIN processor.calls :
        LET c == processor.calls[i]
        IN SameKey(c) = {} /\ Len(keyOf(c)) > 5 /\ NearKey(c) # {}
           /\ c.sizeAfter = Len(c.before)
  /\ \E i \in DOMAIN processor.calls :
        LET c == processor.calls[i]
        IN SameKey(c) = {} /\ Len(keyOf(c)) <= 5 /\ NearKey(c) # {}
           /\ c.sizeAfter = Len(c.before) + 1
  /\ \E i \in DOMAIN processor.calls :
        LET c == processor.calls[i]
        IN SameKey(c) = {} /\ Len(keyOf(c)) > 5 /\ NearKey(c) = {}
           /\ \E j \in DOMAIN c.before : c.before[j].type = c.extracted.type
           /\ c.sizeAfter = Len(c.before) + 1

AllStored(conversations) ==
  \A i \in DOMAIN conversations : conversations[i].id \in DOMAIN dbConversations

\* C3: a call whose conversations are all in the store already returns
\* without a single put: every object store is as it was.
C3_RerunWritesNothing ==
  [][ (pc = "idle" /\ pc' # "idle" /\ AllStored(call'.conversations))
        => (pc' = "done" /\ writes' = <<>> /\ UNCHANGED dbVars) ]_vars

\* A second call on stored conversations has returned.
C3_Witness ==
  /\ pc = "done"
  /\ runs >= 2
  /\ call.conversations # <<>>
  /\ AllStored(call.conversations)
  /\ toProcess = <<>>
  /\ DOMAIN dbEntities # {}
  /\ writes = <<>>

\* C4: when nothing is selected for processing, the call emits exactly one
\* progress event and that event has alreadyComplete = true.
C4_AlreadyCompleteEvent ==
  (pc = "done" /\ toProcess = <<>>) =>
     /\ Len(events) = 1
     /\ Truthy(events[1], "alreadyComplete")

\* C5: after a completed run with threshold k no stored entity has fewer
\* than k occurrences.
C5_NoSparseEntityStored ==
  Completed =>
    \A id \in DOMAIN dbEntities : dbEntities[id].occurrences >= processor.minOccurrences

\* C6: after a completed run no stored conversation lists an entity the
\* run's sparse filter removed.
C6_NoRemovedEntityInConversations ==
  Completed =>
    \A cid \in DOMAIN dbConversations :
       \A i \in DOMAIN dbConversations[cid].entities :
          dbConversations[cid].entities[i] \notin processor.removed

\* A completed run removed an entity that one of its conversations had
\* yielded, or that a stored conversation listed when it was loaded.
C6_Witness ==
  /\ Completed
  /\ \E i \in DOMAIN processor.calls : processor.calls[i].id \in processor.removed
  /\ DOMAIN dbConversations # {}

\* C7: after a completed run every entity id of a stored timeline entry is
\* the id of a stored entity.
C7_TimelineEntitiesExist ==
  Completed =>
    \A d \in DOMAIN dbTimeline :
       \A i \in DOMAIN dbTimeline[d].entities :
          dbTimeline[d].entities[i] \in DOMAIN dbEntities

\* C8: after completed runs the links of the stored entities are symmetric.
C8_LinksSymmetric ==
  Completed =>
    \A a, b \in DOMAIN dbEntities :
       includes(dbEntities[a].links, b) <=> includes(dbEntities[b].links, a)

\* Letters, digits and white space of a name, in lower case: two names with
\* the same image differ in letter case and punctuation only.
IsPunctuation(ch) == ch \notin UpperSet \cup LowerSet \cup DigitSet /\ ~IsSpaceChar(ch)
caseAndPunctuationFolded(name) ==
  toLowerCase(SelectSeq(name, LAMBDA ch : ~IsPunctuation(ch)))

\* The call is for two new conversations with different ids that yield one
\* candidate each, of one type, the names differing in case or punctuation
\* only, and it started from an empty live map.
C9_Case ==
  /\ Len(call.conversations) = 2
  /\ toProcess = call.conversations
  /\ LET a == call.conversations[1]
         b == call.conversations[2]
     IN /\ a.id # b.id
        /\ Len(a.extracted) = 1 /\ Len(b.extracted) = 1
        /\ a.extracted[1].type = b.extracted[1].type
        /\ a.extracted[1].name # b.extracted[1].name
        /\ caseAndPunctuationFolded(a.extracted[1].name)
             = caseAndPunctuationFolded(b.extracted[1].name)
  /\ processor.calls # <<>>
  /\ processor.calls[1].before = <<>>

OneEntityCountedTwice(entities) ==
  LET type == call.conversations[1].extracted[1].type
      ofType == SelectSeq(entities, LAMBDA e : e.type = type)
  IN /\ Len(ofType) = 1
     /\ ofType[1].occurrences = 2
     /\ ofType[1].conversations = <<call.conversations[1].id, call.conversations[2].id>>

RECURSIVE idsOf(_)
idsOf(conversations) ==
  IF conversations = <<>> THEN <<>>
  ELSE <<Head(conversations).id>> \o idsOf(Tail(conversations))

\* conversations.slice(start, end)
slice(arr, start, end) == SubSeq(arr, start + 1, Min2(end, Len(arr)))

\* C10: a call made in explicit-range mode processes exactly the
\* conversations at the indices start .. end-1 of its input.
C10_RangeProcessesExactlySlice ==
  (pc = "done" /\ call.customRange # NoRange) =>
     processor.processed
       = idsOf(slice(call.conversations, call.customRange.start, call.customRange.end))

\* (await getMetadata('processedUpToIndex')) || 0 of startProcessing
processedUpToIndex(metadata) ==
  IF "processedUpToIndex" \in DOMAIN metadata THEN metadata["processedUpToIndex"] ELSE 0

\* C11: the step that completes an incremental run leaves the checkpoint
\* processedUpToIndex at its value before the run plus the number of
\* conversations the run processed.
C11_CheckpointAdvances ==
  [][ (pc = "saveMetadata" /\ Completed' /\ call.resumeMode)
        => processedUpToIndex(dbMetadata')
             = processedUpToIndex(dbMetadata) + Len(processor.processed) ]_vars

\* C12: metadata is put only after the entity, conversation, timeline and
\* search-index writes of the run, and not at all when one of them failed.
C12_MetadataAfterSuccessfulWrites ==
  \A i \in DOMAIN writes :
     writes[i] = "metadata" =>
        /\ failedWrite = "none"
        /\ \A j \in DOMAIN writes : j > i => writes[j] = "metadata"

\* C13: when a write of the persisting phase has failed and the run has
\* ended, the four data stores hold what they held when the run began.
C13_FailedRunLeavesStoreAsBefore ==
  (pc = "done" /\ failedWrite # "none") => dataStores = committed

\* C14: a run with a conversation whose extraction throws is not aborted:
\* every conversation selected for processing is stored when the run has
\* ended, the one that threw with no entities.
C14_ExtractionErrorDoesNotAbort ==
  (pc = "done" /\ call.onProgress = "simple"
     /\ \E i \in DOMAIN toProcess : extractMessagesThrows(toProcess[i]))
  => \A i \in DOMAIN toProcess :
        /\ toProcess[i].id \in DOMAIN dbConversations
        /\ extractMessagesThrows(toProcess[i])
             => dbConversations[toProcess[i].id].entities = <<>>

\* World coordinates on the canvas: screen = world * scale + offset.  A node
\* is inside the view extended by the margin when the points margin to its
\* right and below are not left of or above the canvas, and the points
\* margin to its left and above are not right of or below it.
OnScreen(r, x, y) ==
  [x |-> QAdd(QMul(x, r.viewport.scale), r.viewport.offsetX),
   y |-> QAdd(QMul(y, r.viewport.scale), r.viewport.offsetY)]

InExtendedView(r, node) ==
  /\ QLeq(I(0), OnScreen(r, QAdd(node.x, I(margin)), node.y).x)
  /\ QLeq(OnScreen(r, QSub(node.x, I(margin)), node.y).x, r.width)
  /\ QLeq(I(0), OnScreen(r, node.x, QAdd(node.y, I(margin))).y)
  /\ QLeq(OnScreen(r, node.x, QSub(node.y, I(margin))).y, r.height)

Culled(r) ==
  /\ \A i \in DOMAIN r.nodes :
        includes(r.visibleNodes, r.nodes[i].id)
          <=> (r.nodes[i].visible /\ InExtendedView(r, r.nodes[i]))
  /\ \A i \in DOMAIN r.edges :
        includes(r.visibleEdges, r.edges[i])
          <=> /\ includes(r.visibleNodes, r.edges[i].source)
              /\ includes(r.visibleNodes, r.edges[i].target)

oneShot(conversations, minOccurrences) ==
  filterSparseEntities(processBatch(MemoryProcessor(minOccurrences, 1), conversations, 1),
                       minOccurrences).entities

\* Type, key and occurrence count of every entity, with multiplicity.
census(entities) ==
  LET entry(e) == <<e.type, e.normalizedKey, e.occurrences>>
  IN [t \in {entry(entities[i]) : i \in DOMAIN entities} |->
        Cardinality({i \in DOMAIN entities : entry(entities[i]) = t})]

\* The store began empty and two incremental calls with one threshold have
\* completed, the second just now.
C16_Case ==
  /\ Completed
  /\ Len(history.calls) = 2
  /\ history.calls[1].resumeMode /\ history.calls[2].resumeMode
  /\ history.calls[1].minOccurrences = history.calls[2].minOccurrences

\* C16: the entities in the store after two incremental calls are those a
\* single call on the conversations of both leaves: the same types and keys
\* with the same occurrence counts.
C16_ChunkedEqualsOneShot ==
  C16_Case =>
    census(getAllEntities(dbEntities))
      = census(oneShot(history.calls[1].processed \o history.calls[2].processed,
                       history.calls[1].minOccurrences))

\* C17: a step of the program never removes a date from the stored timeline
\* and never removes a conversation id from the stored entry of a date.
C17_TimelineOnlyGrows ==
  [][\A d \in DOMAIN dbTimeline :
       /\ d \in DOMAIN dbTimeline'
       /\ \A i \in DOMAIN dbTimeline[d].conversations :
             includes(dbTimeline'[d].conversations, dbTimeline[d].conversations[i])]_vars

\* C18: every entity in the live map and every entity in the store has
\* firstSeen <= lastSeen, in every state of every run.
C18_FirstSeenNotAfterLastSeen ==
  /\ \A i \in DOMAIN processor.entities :
        processor.entities[i].firstSeen <= processor.entities[i].lastSeen
  /\ \A id \in DOMAIN dbEntities :
        dbEntities[id].firstSeen <= dbEntities[id].lastSeen

\* A stored entity is linked to a stored conversation whose timestamp is
\* earlier than the entity's firstSeen: the conversation was processed after
\* the one that created the entity.
C18_Witness ==
  \E id \in DOMAIN dbEntities, c \in DOMAIN dbConversations :
     /\ includes(dbEntities[id].conversations, c)
     /\ dbConversations[c].timestamp < dbEntities[id].firstSeen

\* A whitespace-split, lower-cased word of name + description is within the
\* fuzzy distance of the single-token query.
HasNearWord(entity, term) ==
  \E word \in Range(splitWords(toLowerCase(entity.name \o <<" ">> \o entity.description),
                               1, <<>>, <<>>)) :
     levenshteinDistance(word, term) <= Min2(2, Len(term) \div 3)

\* C19: a search for a single token of length >= 2 returns every stored
\* entity that has a word within distance min(2, floor(len / 3)) of the token.
C19_FuzzySearchFindsNearWords ==
  [][Search =>
       LET t == trim(toLowerCase(searchEngine'.query))
       IN Len(t) >= 2 =>
            \A id \in DOMAIN dbEntities :
               HasNearWord(dbEntities[id], t) => id \in searchEngine'.results]_vars

\* The entities of the live map a call saw that have the candidate's type
\* and a different key within distance 2 of the candidate's.
NearOnly(c) == NearKey(c) \ SameKey(c)

\* C20: when the live map holds a same-type entity with a different key
\* within distance 2 of the candidate's key and a same-type entity with the
\* candidate's key, the call returns the id of the one with the candidate's
\* key and never the id of the near one, in either insertion order.
C20_ExactBeforeFuzzy ==
  \A i \in DOMAIN processor.calls :
     LET c == processor.calls[i]
     IN (SameKey(c) # {} /\ NearOnly(c) # {}) =>
          /\ \A j \in NearOnly(c) : c.id # c.before[j].id
          /\ c.id = c.before[CHOOSE j \in SameKey(c) : \A k \in SameKey(c) : j <= k].id

\* A call with a key longer than 5 found the near entity earlier in the
\* live map than the entity with its key, and returned the latter.
C20_Witness ==
  \E i \in DOMAIN processor.calls :
     LET c == processor.calls[i]
     IN /\ Len(keyOf(c)) > 5
        /\ \E j1 \in NearOnly(c), j2 \in SameKey(c) :
              j1 < j2 /\ c.id = c.before[j2].id

\* C21: no entity, in the live map or in the store, has its own id in its
\* links.
C21_NoSelfLink ==
  /\ \A i \in DOMAIN processor.entities :
        ~includes(processor.entities[i].links, processor.entities[i].id)
  /\ \A id \in DOMAIN dbEntities : ~includes(dbEntities[id].links, id)

\* C22: in an incremental run no conversation id is handed to
\* processConversation twice, and none that the conversations store held
\* when the run began.
C22_ProcessedAtMostOnce ==
  call.resumeMode =>
    /\ \A i, j \in DOMAIN processor.processed :
          processor.processed[i] = processor.processed[j] => i = j
    /\ \A i \in DOMAIN processor.processed :
          processor.processed[i] \notin DOMAIN committed[2]

\* A step that runs a frame: the call of animate in start, or a callback the
\* browser calls while the renderer is running.
RunsFrame == Start \/ (Animate /\ renderer.isRunning)

FrameByTheBook ==
  /\ renderer'.frame.culled /\ renderer'.frame.rendered
  /\ renderer'.animationFrame \in renderer'.frames
  /\ IF QLess(Q(1, 100), renderer.simulationAlpha)
       THEN /\ renderer'.frame.physics
            /\ renderer'.simulationAlpha = QSub(renderer.simulationAlpha, renderer.alphaDecay)
       ELSE /\ ~renderer'.frame.physics
            /\ renderer'.simulationAlpha = renderer.simulationAlpha

Settled == renderer.simulationAlpha[1] * 100 <= renderer.simulationAlpha[2]

\* C23: the simulation starts with alpha 1; every frame of the running
\* renderer culls, renders and requests the next frame, and runs the physics
\* and takes alphaDecay off alpha exactly while alpha > 0.01; and when the
\* renderer stays running with no node dragged, alpha is at most 0.01 from
\* some frame on, so that no later frame runs the physics.
C23_PhysicsSettlesRenderingGoesOn ==
  /\ renderer.simulationAlpha = I(1)
  /\ [][RunsFrame => FrameByTheBook]_vars
  /\ [](renderer.isRunning => renderer.animationFrame \in renderer.frames)
  /\ (<>[](renderer.isRunning /\ ~renderer.interaction.isDragging) => <>[]Settled)

\* A frame of the running renderer that has culled and rendered without
\* running the physics, alpha having come down from 1 to 0.
C23_Witness ==
  /\ renderer.isRunning /\ ~renderer.interaction.isDragging
  /\ renderer.simulationAlpha = I(0)
  /\ renderer.frame = [physics |-> FALSE, culled |-> TRUE, rendered |-> TRUE]

SamePlaces(r, s) == \A i \in DOMAIN r.nodes : r.nodes[i].x = s.nodes[i].x /\ r.nodes[i].y = s.nodes[i].y

\* C26: stop leaves the renderer not running with its own request cancelled,
\* and while the renderer is not running no step but start runs the physics,
\* culls or renders: a callback that is still called (one requested by an
\* earlier start) executes nothing.
C26_NothingRunsAfterStop ==
  /\ [][Stop => /\ ~renderer'.isRunning
                /\ renderer'.animationFrame = NoRequest
                /\ renderer.animationFrame \notin renderer'.frames]_vars
  /\ [][(~renderer.isRunning /\ ~Start)
          => /\ ~renderer'.isRunning
             /\ renderer'.frame \in {NoFrame, renderer.frame}
             /\ Animate => renderer'.frame = NoFrame
             /\ SamePlaces(renderer', renderer)
             /\ renderer'.simulationAlpha = renderer.simulationAlpha
                  \/ renderer.interaction.isDragging
             /\ renderer'.visibleNodes = renderer.visibleNodes
             /\ renderer'.visibleEdges = renderer.visibleEdges]_vars

\* start was called twice, then stop, and the callback stop did not cancel
\* has been called: it has executed nothing.
C26_Witness ==
  /\ ~renderer.isRunning
  /\ renderer.frames = {}
  /\ renderer.animationFrame = NoRequest
  /\ renderer.frame = NoFrame
  /\ renderer.simulationAlpha = QSub(I(1), QMul(I(2), renderer.alphaDecay))

\* The pointer at p is less than 5 px on each axis from where it went down.
NearDown(r, p) ==
  /\ QLess(QAbs(QSub(p.x, r.down.x)), I(ClickSlop))
  /\ QLess(QAbs(QSub(p.y, r.down.y)), I(ClickSlop))

\* C25: a mouseup that ends the drag of a node selects the node and calls
\* onNodeClick only if the pointer is less than 5 px on each axis from the
\* place of the mousedown that started the drag; in every case it un-pins
\* the node and clears the dragging and panning flags.
C25_ClickOnlyWithoutMovement ==
  [][\A p \in MousePoints :
       ( /\ renderer.interaction.isDragging
         /\ renderer.interaction.draggedNode # NoNode
         /\ renderer' = mouseup(renderer, p.x, p.y) )
       => /\ renderer'.clicked # NoNode => NearDown(renderer, p)
          /\ nodeOf(renderer', renderer.interaction.draggedNode).fx = Null
          /\ nodeOf(renderer', renderer.interaction.draggedNode).fy = Null
          /\ ~renderer'.interaction.isDragging
          /\ ~renderer'.interaction.isPanning]_vars

\* C27: every node with a pinned position is the node being dragged.
C27_PinnedOnlyWhileDragged ==
  \A i \in DOMAIN renderer.nodes :
     renderer.nodes[i].fx # Null => renderer.interaction.draggedNode = renderer.nodes[i].id

\* C29: isDragging and isPanning are never both true.
C29_DragOrPanNotBoth ==
  ~(renderer.interaction.isDragging /\ renderer.interaction.isPanning)

\* C28: no step makes a node that the type filter hides the hovered or the
\* dragged node: hit-testing does not return it, whether or not a frame has
\* run since the filter changed.
C28_HiddenNodeNotHit ==
  [][\A i \in DOMAIN renderer.nodes :
       ~renderer.nodes[i].visible
         => /\ renderer'.interaction.hoveredNode = renderer.nodes[i].id
                 => renderer.interaction.hoveredNode = renderer.nodes[i].id
            /\ renderer'.interaction.draggedNode = renderer.nodes[i].id
                 => renderer.interaction.draggedNode = renderer.nodes[i].id]_vars

\* The screen place stays on the world point it was on.
SameWorldPoint(r, s, x, y) == screenToWorld(r, x, y) = screenToWorld(s, x, y)

Midpoint(touches) ==
  [x |-> Q(touches[1].x + touches[2].x, 2), y |-> Q(touches[1].y + touches[2].y, 2)]

\* C24: a wheel step leaves the world point under the pointer under the
\* pointer, and a two-finger touchmove leaves the world point under the
\* midpoint of the touches under that midpoint.
C24_ZoomKeepsPointFixed ==
  [][/\ \A p \in MousePoints, zoomIn \in BOOLEAN :
          renderer' = Zoomed(wheel(renderer, p.x, p.y, zoomIn))
            => SameWorldPoint(renderer', renderer, p.x, p.y)
     /\ \A touches \in TouchLists :
          (Len(touches) = 2 /\ renderer' = Zoomed(touchmove(renderer, touches)))
            => SameWorldPoint(renderer', renderer, Midpoint(touches).x, Midpoint(touches).y)]_vars

\* C30: viewport.scale is within [minScale, maxScale].
C30_ScaleWithinLimits ==
  /\ QLeq(renderer.viewport.minScale, renderer.viewport.scale)
  /\ QLeq(renderer.viewport.scale, renderer.viewport.maxScale)

====
